---- MODULE Spec2Model ----
(***************************************************************************)
(* Verification model of plugah: the BudgetManager / CFO (budget.py), the  *)
(* EventBus (core/events.py) and the Executor / WaveExecutor (executor.py).*)
(*                                                                         *)
(* Money is modelled in whole units.  The code compares floats against     *)
(* cap * 0.9 and cap * 0.7; for whole-unit spends and caps up to 200 the    *)
(* float comparison spent >= cap * 0.9 agrees with 10*spent >= 9*cap (and   *)
(* likewise 0.7), so the thresholds are written in that cross-multiplied    *)
(* form.  A patch value spent * 1.2 is carried in tenths (12 * spent).      *)
(***************************************************************************)
EXTENDS Integers, Sequences, FiniteSets, TLC

VARIABLES
    bm,          \* the BudgetManager: spent, spend_history, alerts, budget caps, budget.actual_cost_usd
    ret,         \* what the last BudgetManager / CFO call returned
    nSpend,      \* number of record_spend calls made by the driver so far
    subscribers, \* EventBus._subscribers: the registered queues, in registration order
    queue,       \* the asyncio.Queue of each subscribe() call
    closed,      \* EventBus._closed
    published,   \* number of publish() calls so far; event k is the k-th published
    subState,    \* each subscribe() generator: "idle", "active" or "finished"
    received,    \* the events each subscriber's loop body has been handed, in order
    subAt,       \* value of published when the subscriber registered its queue
    dropped,     \* the events a publish discarded for this subscriber because its queue was full
    afterClose,  \* number of publish() calls made after close()
    mode,        \* which execute() is called: Executor sequential / parallel, WaveExecutor parallel / sequential
    useReal,     \* Executor.use_real_execution and a crew is set
    edges,       \* the task-to-task edges of execution_graph, as (from, to) pairs
    estCost,     \* TaskSpec.cost.est_cost_usd of each task
    pc,          \* where execute() stands
    taskStatus,  \* TaskSpec.status of each task
    results,     \* Executor.results: the recorded ExecutionResult status of each task, "none" if absent
    task_order,  \* sequential mode: the part of task_order still to walk
    remaining_tasks, \* parallel mode: remaining_tasks
    waves,       \* WaveExecutor: the waves still to execute
    batch,       \* the tasks of the current gather / wave
    co,          \* each task's _execute_task coroutine: "none", "pending" (created) or "awaiting" (suspended in the work)
    callbacks,   \* Executor.callbacks: the registered callbacks, in add_callback order
    seen,        \* the events the recording callback was handed, by the task_id of their data (0: none)
    mockEnv,     \* PLUGAH_MODE is "mock" in the process environment
    br,          \* the BoardRoom under test (orchestrator.py): its fields
    rcall,       \* what the last BoardRoom call was given and what it returned or raised
    file,        \* the state file written by save_state, None before the first save
    loaded,      \* a fresh BoardRoom() after load_state(file), None before
    restored,    \* BoardRoom.from_dict(br.to_dict()), None before
    nCalls,      \* number of BoardRoom calls made so far
    nextId,      \* source of fresh uuid4 values and object identities
    oagObj,      \* the OAG under test (oag_schema.py): its nodes map, None before construction
    oagRet,      \* what the last OAG call was given and what it returned or raised
    cacheFiles,  \* CacheManager: the .cache files on disk, by cache key
    now,         \* time.time(), in seconds
    cacheRet,    \* what the last CacheManager call was given and what it returned
    env,         \* the process environment the adapters read: DRY_RUN and the credentials
    adapters,    \* the adapter instances of the ToolRegistry, None before ToolRegistry.default()
    adRet,       \* what the last adapter run() was given, returned and did
    plan,        \* Planner.plan calls made for one PRD: the agent count per budget
    org,         \* OrgPlanner.plan calls made for one problem text: the IC count per policy
    metric,      \* the last attainment computed by the MetricsEngine, with its inputs
    estimate,    \* CostEstimator.estimate_task_cost calls made so far: arguments and returned cost
    http,        \* the contrib HTTP app: STATE, the responses sent and the background run
    web,         \* the web backend: one session of deps.sessions and the executions started on its BoardRoom
    selection,   \* the last ToolSelector.select_tools call: its arguments and the tool ids returned
    forward      \* the slim BoardRoom during execute(on_event=cb): the run, the forwarding task and what cb was given

budgetVars == <<bm, ret, nSpend>>
busVars == <<subscribers, queue, closed, published, subState, received, subAt, dropped, afterClose>>
execVars == <<mode, useReal, edges, estCost, pc, taskStatus, results, task_order,
              remaining_tasks, waves, batch, co, callbacks, seen>>
roomVars == <<mockEnv, br, rcall, file, loaded, restored, nCalls, nextId>>
oagVars == <<oagObj, oagRet>>
cacheVars == <<cacheFiles, now, cacheRet>>
adapterVars == <<env, adapters, adRet>>
calcVars == <<plan, org, metric>>
svcVars == <<estimate, http, web, selection, forward>>
extVars == <<roomVars, oagVars, cacheVars, adapterVars, calcVars, svcVars>>
oldVars == <<budgetVars, busVars, execVars>>
extVarsNotRoom == <<oagVars, cacheVars, adapterVars, calcVars, svcVars>>
notOagVars == <<oldVars, roomVars, cacheVars, adapterVars, calcVars, svcVars>>
notCacheVars == <<oldVars, roomVars, oagVars, adapterVars, calcVars, svcVars>>
notAdapterVars == <<oldVars, roomVars, oagVars, cacheVars, calcVars, svcVars>>
notCalcVars == <<oldVars, roomVars, oagVars, cacheVars, adapterVars, svcVars>>
notSvcVars == <<oldVars, roomVars, oagVars, cacheVars, adapterVars, calcVars>>


(***************************************************************************)
(* Bounds                                                                  *)
(***************************************************************************)
MaxSpendCalls == 4
MaxPublish == 102
MaxGets == 3
MaxSubscribeAt == 2
MaxPublishAfterClose == 2
NumTasks == 3
MaxEdges == 2
MaxRoomCalls == 4

(***************************************************************************)
(* BudgetManager and CFO (budget.py)                                       *)
(***************************************************************************)
NORMAL == "normal"
WARNING == "warning"
CRITICAL == "critical"
EXCEEDED_SOFT == "exceeded_soft"
EMERGENCY == "emergency"
BudgetAlert == {NORMAL, WARNING, CRITICAL, EXCEEDED_SOFT, EMERGENCY}

\* (soft_cap_usd, hard_cap_usd) pairs the driver constructs a BudgetModel with
CapPairs == {<<80, 100>>, <<50, 100>>, <<95, 100>>}
\* amounts the driver passes to record_spend / evaluate_spend_request
Amounts == {0, 9, 16, 46, 56, 95}
\* amounts the driver asks the CFO about
RequestAmounts == {5, 60}
Priorities == {"low", "medium", "high", "critical"}

BudgetManagerInit(soft, hard, sp) ==
    [spent |-> sp, spend_history |-> <<>>, alerts |-> <<>>,
     soft_cap_usd |-> soft, hard_cap_usd |-> hard, actual_cost_usd |-> sp]

get_remaining(b) == b.hard_cap_usd - b.spent

can_proceed(b) == b.spent < b.hard_cap_usd

is_near_soft_cap(b) == 10 * b.spent >= 9 * b.soft_cap_usd

can_afford_task(b, estimated_cost) == b.spent + estimated_cost <= b.hard_cap_usd

get_alert_level_skip_exceeded(b) ==
    IF 10 * b.spent >= 9 * b.hard_cap_usd THEN EMERGENCY
    ELSE IF 10 * b.spent >= 9 * b.soft_cap_usd THEN CRITICAL
    ELSE IF 10 * b.spent >= 7 * b.soft_cap_usd THEN WARNING
    ELSE NORMAL

get_alert_level(b) ==
    IF 10 * b.spent >= 9 * b.hard_cap_usd THEN EMERGENCY
    ELSE IF b.spent >= b.soft_cap_usd THEN EXCEEDED_SOFT
    ELSE IF 10 * b.spent >= 9 * b.soft_cap_usd THEN CRITICAL
    ELSE IF 10 * b.spent >= 7 * b.soft_cap_usd THEN WARNING
    ELSE NORMAL

_add_alert(b, level) ==
    [b EXCEPT !.alerts = Append(@, [level |-> level, spent |-> b.spent])]

_check_alerts(b) ==
    IF get_alert_level(b) # NORMAL THEN _add_alert(b, get_alert_level(b)) ELSE b

\* record_spend returns the pair (manager after the call, returned boolean)
record_spend_no_cap(b, amount) ==
    LET b1 == [b EXCEPT !.spent = @ + amount, !.actual_cost_usd = b.spent + amount]
        b2 == [b1 EXCEPT !.spend_history =
                  Append(@, [amount |-> amount, total_spent |-> b1.spent,
                             remaining |-> get_remaining(b1)])]
    IN [bm |-> _check_alerts(b2), ok |-> TRUE]

record_spend(b, amount) ==
    IF b.spent + amount > b.hard_cap_usd
    THEN [bm |-> _add_alert(b, EMERGENCY), ok |-> FALSE]
    ELSE LET b1 == [b EXCEPT !.spent = @ + amount, !.actual_cost_usd = b.spent + amount]
             b2 == [b1 EXCEPT !.spend_history =
                       Append(@, [amount |-> amount, total_spent |-> b1.spent,
                                  remaining |-> get_remaining(b1)])]
         IN [bm |-> _check_alerts(b2), ok |-> TRUE]

\* CFO.evaluate_spend_request: the "approved" entry of the returned dict
evaluate_spend_request_ignore_afford(b, amount, priority) ==
    LET alert_level == get_alert_level(b)
    IN IF alert_level = EMERGENCY THEN priority = "critical"
       ELSE IF alert_level = EXCEEDED_SOFT THEN priority \in {"critical", "high"}
       ELSE IF alert_level = CRITICAL THEN priority # "low"
       ELSE TRUE

evaluate_spend_request(b, amount, priority) ==
    LET can_afford == can_afford_task(b, amount)
        alert_level == get_alert_level(b)
    IN IF ~can_afford THEN FALSE
       ELSE IF alert_level = EMERGENCY THEN priority = "critical"
       ELSE IF alert_level = EXCEEDED_SOFT THEN priority \in {"critical", "high"}
       ELSE IF alert_level = CRITICAL THEN priority # "low"
       ELSE TRUE

\* CFO.generate_budget_patch: the returned patch; value10 is the value in tenths
NoPatch == [op |-> "none", path |-> "", value |-> "", value10 |-> 0]

generate_budget_patch_warning_too(b) ==
    IF get_alert_level(b) \in {EMERGENCY, EXCEEDED_SOFT, CRITICAL, WARNING}
    THEN [op |-> "replace", path |-> "/budget/policy", value |-> "conservative", value10 |-> 0]
    ELSE NoPatch

generate_budget_patch(b) ==
    LET alert_level == get_alert_level(b)
    IN IF alert_level \in {EMERGENCY, EXCEEDED_SOFT, CRITICAL}
       THEN [op |-> "replace", path |-> "/budget/policy", value |-> "conservative", value10 |-> 0]
       ELSE IF alert_level = WARNING
       THEN [op |-> "replace", path |-> "/budget/forecast_cost_usd", value |-> "", value10 |-> 12 * b.spent]
       ELSE NoPatch

NoRet == [op |-> "none", amount |-> 0, priority |-> "", ok |-> FALSE, level |-> NORMAL, patch |-> NoPatch]

(***************************************************************************)
(* EventBus (core/events.py)                                               *)
(***************************************************************************)
QueueMaxSize == 100
Subs == {"s1", "s2"}

RemoveSub(seq, s) == SelectSeq(seq, LAMBDA x : x # s)

\* put_nowait on one subscriber queue; QueueFull is swallowed
put_nowait_front(q, event) ==
    IF Len(q) >= QueueMaxSize THEN q ELSE <<event>> \o q

put_nowait(q, event) ==
    IF Len(q) >= QueueMaxSize THEN q ELSE Append(q, event)

\* the subscribers a publish call offers the event to
PublishTargets_until_full(subs, qs) ==
    {subs[i] : i \in {j \in 1..Len(subs) :
                        \A k \in 1..j : Len(qs[subs[k]]) < QueueMaxSize}}

PublishTargets(subs, qs) == {subs[i] : i \in 1..Len(subs)}

BusInit ==
    /\ subscribers = <<>>
    /\ queue = [s \in Subs |-> <<>>]
    /\ closed = FALSE
    /\ published = 0
    /\ subState = [s \in Subs |-> "idle"]
    /\ received = [s \in Subs |-> <<>>]
    /\ subAt = [s \in Subs |-> 0]
    /\ dropped = [s \in Subs |-> {}]
    /\ afterClose = 0

\* EventBus.publish(event): event published + 1
Publish ==
    /\ published < MaxPublish
    /\ closed => afterClose < MaxPublishAfterClose
    /\ published' = published + 1
    /\ afterClose' = IF closed THEN afterClose + 1 ELSE afterClose
    /\ IF closed
       THEN UNCHANGED <<queue, dropped>>
       ELSE LET targets == PublishTargets(subscribers, queue)
            IN /\ queue' = [s \in Subs |->
                              IF s \in targets THEN put_nowait(queue[s], published + 1)
                              ELSE queue[s]]
               /\ dropped' = [s \in Subs |->
                              IF subState[s] = "active" /\ Len(queue[s]) >= QueueMaxSize
                              THEN dropped[s] \cup {published + 1} ELSE dropped[s]]
    /\ UNCHANGED <<subscribers, closed, subState, received, subAt>>
    /\ UNCHANGED budgetVars
    /\ UNCHANGED execVars
    /\ UNCHANGED extVars

\* first step of the subscribe() generator: create the queue and register it
Subscribe(s) ==
    /\ subState[s] = "idle"
    /\ published <= MaxSubscribeAt
    /\ subState' = [subState EXCEPT ![s] = "active"]
    /\ subscribers' = Append(subscribers, s)
    /\ queue' = [queue EXCEPT ![s] = <<>>]
    /\ subAt' = [subAt EXCEPT ![s] = published]
    /\ UNCHANGED <<closed, published, received, dropped, afterClose>>
    /\ UNCHANGED budgetVars
    /\ UNCHANGED execVars
    /\ UNCHANGED extVars

\* event = await queue.get(); yield event
Get(s) ==
    /\ subState[s] = "active"
    /\ queue[s] # <<>>
    /\ Len(received[s]) < MaxGets
    /\ received' = [received EXCEPT ![s] = Append(@, Head(queue[s]))]
    /\ queue' = [queue EXCEPT ![s] = Tail(@)]
    /\ UNCHANGED <<subscribers, closed, published, subState, subAt, dropped, afterClose>>
    /\ UNCHANGED budgetVars
    /\ UNCHANGED execVars
    /\ UNCHANGED extVars

\* the generator is closed (consumer broke out or was cancelled): finally remove(queue)
Unsubscribe(s) ==
    /\ subState[s] = "active"
    /\ subState' = [subState EXCEPT ![s] = "finished"]
    /\ subscribers' = RemoveSub(subscribers, s)
    /\ queue' = [queue EXCEPT ![s] = <<>>]
    /\ UNCHANGED <<closed, published, received, subAt, dropped, afterClose>>
    /\ UNCHANGED budgetVars
    /\ UNCHANGED execVars
    /\ UNCHANGED extVars

\* variant: close also empties the queues of the registered subscribers
Close_draining ==
    /\ ~closed
    /\ closed' = TRUE
    /\ queue' = [s \in Subs |-> <<>>]
    /\ UNCHANGED <<subscribers, published, subState, received, subAt, dropped, afterClose>>
    /\ UNCHANGED budgetVars
    /\ UNCHANGED execVars
    /\ UNCHANGED extVars

\* EventBus.close()
Close ==
    /\ ~closed
    /\ closed' = TRUE
    /\ UNCHANGED <<subscribers, queue, published, subState, received, subAt, dropped, afterClose>>
    /\ UNCHANGED budgetVars
    /\ UNCHANGED execVars
    /\ UNCHANGED extVars


(***************************************************************************)
(* Executor and WaveExecutor (executor.py)                                 *)
(***************************************************************************)
PLANNED == "planned"
RUNNING == "running"
DONE == "done"
FAILED == "failed"
SKIPPED == "skipped"

Tasks == 1..NumTasks
Modes == {"sequential", "parallel", "wave_parallel", "wave_sequential"}
\* est_cost_usd of the task specs: all cheap, all expensive, or alternating
CostProfiles ==
    {[t \in Tasks |-> 10], [t \in Tasks |-> 20],
     [t \in Tasks |-> IF t % 2 = 1 THEN 10 ELSE 20]}
\* (soft_cap_usd, hard_cap_usd) of the executed OAG and what its manager had spent before execute()
ExecCaps == <<20, 30>>
PriorSpend == {0, 30}

\* _build_execution_graph: every task is a node, every edge between two tasks is kept
Graphs == {g \in SUBSET (Tasks \X Tasks) : Cardinality(g) <= MaxEdges}

predecessors(g, t) == {p \in Tasks : <<p, t>> \in g}

\* nx.topological_sort succeeds exactly on acyclic graphs
RECURSIVE IsAcyclic(_, _)
IsAcyclic(g, rem) ==
    IF rem = {} THEN TRUE
    ELSE LET src == {n \in rem : predecessors(g, n) \cap rem = {}}
         IN src # {} /\ IsAcyclic(g, rem \ src)

\* the orders nx.topological_sort can return (which one depends on insertion order)
Injective(f) == \A i, j \in DOMAIN f : f[i] = f[j] => i = j
topological_sort(g) ==
    {o \in [1..NumTasks -> Tasks] :
        /\ Injective(o)
        /\ \A i, j \in 1..NumTasks : <<o[i], o[j]>> \in g => i < j}

\* Executor._dependencies_satisfied
_dependencies_satisfied_any_result(g, res, task_id) ==
    \A pred \in predecessors(g, task_id) : res[pred] # "none"

_dependencies_satisfied(g, res, task_id) ==
    \A pred \in predecessors(g, task_id) : res[pred] # "none" /\ res[pred] = DONE

RECURSIVE _calculate_waves(_, _)
\* variant: no peeling, the whole working set as one wave
_calculate_waves_single(g, remaining) ==
    IF remaining = {} THEN <<>> ELSE <<remaining>>

\* WaveExecutor._calculate_waves
_calculate_waves(g, remaining) ==
    IF remaining = {} THEN <<>>
    ELSE LET free == {node \in remaining : predecessors(g, node) \cap remaining = {}}
             wave == IF free = {} THEN remaining ELSE free
         IN <<wave>> \o _calculate_waves(g, remaining \ wave)

\* the cost _execute_task charges: est_cost_usd * 1.1 with a crew, est_cost_usd in the mock path
TaskCost(est, real) == IF real THEN (est * 11) \div 10 ELSE est

\* Executor.get_progress: the task counts of the returned dict
get_progress(res) ==
    LET total_tasks == Cardinality(Tasks)
        completed_tasks == Cardinality({t \in Tasks : res[t] = DONE})
        failed_tasks == Cardinality({t \in Tasks : res[t] = FAILED})
    IN  [total |-> total_tasks, completed |-> completed_tasks, failed |-> failed_tasks,
         in_progress |-> total_tasks - completed_tasks - failed_tasks]

NoCo == [t \in Tasks |-> "none"]

\* ExecutionEvent
TASK_START == "task_start"
TASK_COMPLETE == "task_complete"
TASK_FAILED == "task_failed"
BUDGET_WARNING == "budget_warning"
BUDGET_EXCEEDED == "budget_exceeded"

\* the callbacks a caller registers: one that appends the event to a list, one that raises
Recorder == "recorder"
Raiser == "raiser"
CallbackLists == {<<Recorder>>, <<Raiser, Recorder>>, <<Recorder, Raiser>>}

NoSeen == [t \in 0..NumTasks |-> <<>>]

RECURSIVE Executor_emit_event_one_try(_, _, _, _)
RECURSIVE Executor_emit_event(_, _, _, _)
\* variant: one try around the whole loop, so the first raising callback ends the delivery
Executor_emit_event_one_try(cbs, log, event, task_id) ==
    IF cbs = <<>> \/ Head(cbs) = Raiser THEN log
    ELSE Executor_emit_event_one_try(Tail(cbs), [log EXCEPT ![task_id] = Append(@, event)],
                                     event, task_id)

\* Executor._emit_event: every callback is called in turn, an Exception it raises is printed
Executor_emit_event(cbs, log, event, task_id) ==
    IF cbs = <<>> THEN log
    ELSE Executor_emit_event(Tail(cbs),
                             IF Head(cbs) = Recorder
                             THEN [log EXCEPT ![task_id] = Append(@, event)]
                             ELSE log,
                             event, task_id)

ExecIdle ==
    /\ mode = "sequential"
    /\ useReal = FALSE
    /\ edges = {}
    /\ estCost = [t \in Tasks |-> 10]
    /\ pc = "idle"
    /\ taskStatus = [t \in Tasks |-> PLANNED]
    /\ results = [t \in Tasks |-> "none"]
    /\ task_order = <<>>
    /\ remaining_tasks = {}
    /\ waves = <<>>
    /\ batch = {}
    /\ co = NoCo
    /\ callbacks = <<>>
    /\ seen = NoSeen

\* an executor just constructed over its OAG, before any add_callback
ExecBegin ==
    /\ mode \in Modes
    /\ useReal \in BOOLEAN
    /\ edges \in Graphs
    /\ estCost \in CostProfiles
    /\ pc = "entry"
    /\ taskStatus = [t \in Tasks |-> PLANNED]
    /\ results = [t \in Tasks |-> "none"]
    /\ task_order = <<>>
    /\ remaining_tasks = {}
    /\ waves = <<>>
    /\ batch = {}
    /\ co = NoCo
    /\ seen = NoSeen
    /\ \E sp \in PriorSpend : bm = BudgetManagerInit(ExecCaps[1], ExecCaps[2], sp)
    /\ ret = NoRet
    /\ nSpend = 0

\* execute() is called with no callback registered
ExecInit == ExecBegin /\ callbacks = <<>>

\* Executor.execute up to the first suspension
Execute ==
    /\ pc = "entry"
    /\ mode \in {"sequential", "parallel"}
    /\ IF ~can_proceed(bm)
       THEN /\ seen' = Executor_emit_event(callbacks, seen, BUDGET_EXCEEDED, 0)
            /\ pc' = "returned"
            /\ UNCHANGED <<task_order, remaining_tasks>>
       ELSE IF mode = "parallel"
       THEN /\ remaining_tasks' = Tasks
            /\ pc' = "par_loop"
            /\ UNCHANGED <<task_order, seen>>
       ELSE IF IsAcyclic(edges, Tasks)
       THEN /\ \E o \in topological_sort(edges) : task_order' = o
            /\ pc' = "seq_loop"
            /\ UNCHANGED <<remaining_tasks, seen>>
       ELSE \* NetworkXUnfeasible is not a NetworkXError: it leaves execute
            /\ pc' = "raised"
            /\ UNCHANGED <<task_order, remaining_tasks, seen>>
    /\ UNCHANGED <<mode, useReal, edges, estCost, callbacks, taskStatus, results, waves, batch, co>>
    /\ UNCHANGED <<bm, ret, nSpend>>
    /\ UNCHANGED busVars
    /\ UNCHANGED extVars

\* a variant of the sequential loop that gives up once a task has failed
SeqStep_abort_on_failure ==
    /\ pc = "seq_loop"
    /\ IF task_order = <<>> \/ \E t \in Tasks : results[t] = FAILED
       THEN /\ pc' = "returned"
            /\ UNCHANGED <<task_order, results, co, batch>>
       ELSE LET task_id == Head(task_order)
            IN /\ task_order' = Tail(task_order)
               /\ IF ~_dependencies_satisfied(edges, results, task_id)
                  THEN /\ results' = [results EXCEPT ![task_id] = SKIPPED]
                       /\ UNCHANGED <<pc, co, batch>>
                  ELSE /\ co' = [co EXCEPT ![task_id] = "pending"]
                       /\ batch' = {task_id}
                       /\ pc' = "seq_wait"
                       /\ UNCHANGED results
    /\ UNCHANGED <<mode, useReal, edges, estCost, callbacks, seen, taskStatus, remaining_tasks, waves>>
    /\ UNCHANGED <<bm, ret, nSpend>>
    /\ UNCHANGED busVars
    /\ UNCHANGED extVars

\* _execute_sequential: one iteration of the loop, up to the await of _execute_task
SeqStep ==
    /\ pc = "seq_loop"
    /\ IF task_order = <<>>
       THEN /\ pc' = "returned"
            /\ UNCHANGED <<task_order, results, co, batch>>
       ELSE LET task_id == Head(task_order)
            IN /\ task_order' = Tail(task_order)
               /\ IF ~_dependencies_satisfied(edges, results, task_id)
                  THEN /\ results' = [results EXCEPT ![task_id] = SKIPPED]
                       /\ UNCHANGED <<pc, co, batch>>
                  ELSE /\ co' = [co EXCEPT ![task_id] = "pending"]
                       /\ batch' = {task_id}
                       /\ pc' = "seq_wait"
                       /\ UNCHANGED results
    /\ UNCHANGED <<mode, useReal, edges, estCost, callbacks, seen, taskStatus, remaining_tasks, waves>>
    /\ UNCHANGED <<bm, ret, nSpend>>
    /\ UNCHANGED busVars
    /\ UNCHANGED extVars

\* a variant of the parallel loop that runs whatever remains when no task is ready
ParStep_run_residue ==
    /\ pc = "par_loop"
    /\ LET ready_tasks == {t \in remaining_tasks : _dependencies_satisfied(edges, results, t)}
           chosen == IF ready_tasks = {} THEN remaining_tasks ELSE ready_tasks
       IN IF remaining_tasks = {}
          THEN /\ pc' = "returned"
               /\ UNCHANGED <<co, batch>>
          ELSE /\ co' = [t \in Tasks |-> IF t \in chosen THEN "pending" ELSE co[t]]
               /\ batch' = chosen
               /\ pc' = "par_gather"
    /\ UNCHANGED <<mode, useReal, edges, estCost, callbacks, seen, taskStatus, results, task_order,
                   remaining_tasks, waves>>
    /\ UNCHANGED <<bm, ret, nSpend>>
    /\ UNCHANGED busVars
    /\ UNCHANGED extVars

\* _execute_parallel: the head of the while loop, up to the gather
ParStep ==
    /\ pc = "par_loop"
    /\ LET ready_tasks == {t \in remaining_tasks : _dependencies_satisfied(edges, results, t)}
       IN IF remaining_tasks = {} \/ ready_tasks = {}
          THEN /\ pc' = "returned"
               /\ UNCHANGED <<co, batch>>
          ELSE /\ co' = [t \in Tasks |-> IF t \in ready_tasks THEN "pending" ELSE co[t]]
               /\ batch' = ready_tasks
               /\ pc' = "par_gather"
    /\ UNCHANGED <<mode, useReal, edges, estCost, callbacks, seen, taskStatus, results, task_order,
                   remaining_tasks, waves>>
    /\ UNCHANGED <<bm, ret, nSpend>>
    /\ UNCHANGED busVars
    /\ UNCHANGED extVars

\* WaveExecutor.execute up to the first wave
WaveExecute ==
    /\ pc = "entry"
    /\ mode \in {"wave_parallel", "wave_sequential"}
    /\ waves' = _calculate_waves(edges, Tasks)
    /\ pc' = "wave_loop"
    /\ UNCHANGED <<mode, useReal, edges, estCost, callbacks, seen, taskStatus, results, task_order,
                   remaining_tasks, batch, co>>
    /\ UNCHANGED <<bm, ret, nSpend>>
    /\ UNCHANGED busVars
    /\ UNCHANGED extVars

\* WaveExecutor.execute: start the next wave
WaveStep ==
    /\ pc = "wave_loop"
    /\ IF waves = <<>>
       THEN /\ pc' = "returned"
            /\ UNCHANGED <<co, batch>>
       ELSE /\ batch' = Head(waves)
            /\ IF mode = "wave_parallel"
               THEN co' = [t \in Tasks |-> IF t \in Head(waves) THEN "pending" ELSE co[t]]
               ELSE UNCHANGED co
            /\ pc' = IF mode = "wave_parallel" THEN "wave_gather" ELSE "wave_seq"
    /\ UNCHANGED <<mode, useReal, edges, estCost, callbacks, seen, taskStatus, results, task_order,
                   remaining_tasks, waves>>
    /\ UNCHANGED <<bm, ret, nSpend>>
    /\ UNCHANGED busVars
    /\ UNCHANGED extVars

\* WaveExecutor.execute, sequential within a wave: await the next task of the wave
WaveSeqNext ==
    /\ pc = "wave_seq"
    /\ batch # {}
    /\ \A t \in Tasks : co[t] = "none"
    /\ \E task_id \in batch :
          /\ co' = [co EXCEPT ![task_id] = "pending"]
          /\ batch' = batch \ {task_id}
    /\ UNCHANGED <<mode, useReal, edges, estCost, callbacks, seen, pc, taskStatus, results, task_order,
                   remaining_tasks, waves>>
    /\ UNCHANGED <<bm, ret, nSpend>>
    /\ UNCHANGED busVars
    /\ UNCHANGED extVars

\* _execute_task from its entry to the first suspension
TaskStart(task_id) ==
    /\ co[task_id] = "pending"
    /\ IF ~can_proceed(bm)
       THEN /\ seen' = Executor_emit_event(callbacks, seen, BUDGET_EXCEEDED, task_id)
            /\ results' = [results EXCEPT ![task_id] = FAILED]
            /\ co' = [co EXCEPT ![task_id] = "none"]
            /\ UNCHANGED taskStatus
       ELSE /\ seen' = Executor_emit_event(callbacks, seen, TASK_START, task_id)
            /\ taskStatus' = [taskStatus EXCEPT ![task_id] = RUNNING]
            /\ co' = [co EXCEPT ![task_id] = "awaiting"]
            /\ UNCHANGED results
    /\ UNCHANGED <<mode, useReal, edges, estCost, callbacks, pc, task_order, remaining_tasks, waves, batch>>
    /\ UNCHANGED <<bm, ret, nSpend>>
    /\ UNCHANGED busVars
    /\ UNCHANGED extVars

\* _execute_task after the work: the try body completes
TaskComplete(task_id) ==
    /\ co[task_id] = "awaiting"
    \* the mock path sleeps 0.5s: every coroutine of the gather has started by then
    /\ useReal \/ \A u \in Tasks : co[u] # "pending"
    /\ bm' = record_spend(bm, TaskCost(estCost[task_id], useReal)).bm
    /\ seen' = Executor_emit_event(callbacks,
                            IF is_near_soft_cap(bm')
                            THEN Executor_emit_event(callbacks, seen, BUDGET_WARNING, task_id)
                            ELSE seen,
                            TASK_COMPLETE, task_id)
    /\ taskStatus' = [taskStatus EXCEPT ![task_id] = DONE]
    /\ results' = [results EXCEPT ![task_id] = DONE]
    /\ co' = [co EXCEPT ![task_id] = "none"]
    /\ UNCHANGED <<mode, useReal, edges, estCost, callbacks, pc, task_order, remaining_tasks, waves, batch>>
    /\ UNCHANGED <<ret, nSpend>>
    /\ UNCHANGED busVars
    /\ UNCHANGED extVars

\* a variant of the except branch that puts the task back to planned for another attempt
TaskRaise_requeue(task_id) ==
    /\ co[task_id] = "awaiting"
    /\ useReal
    /\ taskStatus' = [taskStatus EXCEPT ![task_id] = PLANNED]
    /\ seen' = Executor_emit_event(callbacks, seen, TASK_FAILED, task_id)
    /\ results' = [results EXCEPT ![task_id] = FAILED]
    /\ co' = [co EXCEPT ![task_id] = "none"]
    /\ UNCHANGED <<mode, useReal, edges, estCost, callbacks, pc, task_order, remaining_tasks, waves, batch>>
    /\ UNCHANGED <<bm, ret, nSpend>>
    /\ UNCHANGED busVars
    /\ UNCHANGED extVars

\* _execute_task after the work: _execute_with_crew raised, the except branch runs
TaskRaise(task_id) ==
    /\ co[task_id] = "awaiting"
    /\ useReal
    /\ taskStatus' = [taskStatus EXCEPT ![task_id] = FAILED]
    /\ seen' = Executor_emit_event(callbacks, seen, TASK_FAILED, task_id)
    /\ results' = [results EXCEPT ![task_id] = FAILED]
    /\ co' = [co EXCEPT ![task_id] = "none"]
    /\ UNCHANGED <<mode, useReal, edges, estCost, callbacks, pc, task_order, remaining_tasks, waves, batch>>
    /\ UNCHANGED <<bm, ret, nSpend>>
    /\ UNCHANGED busVars
    /\ UNCHANGED extVars

\* the awaited _execute_task / gather has completed: back in the caller's loop
Resume ==
    /\ pc \in {"seq_wait", "par_gather", "wave_gather", "wave_seq"}
    /\ \A t \in Tasks : co[t] = "none"
    /\ pc = "wave_seq" => batch = {}
    /\ IF pc = "seq_wait"
       THEN /\ pc' = "seq_loop"
            /\ UNCHANGED <<remaining_tasks, waves>>
       ELSE IF pc = "par_gather"
       THEN /\ remaining_tasks' = remaining_tasks \ batch
            /\ pc' = "par_loop"
            /\ UNCHANGED waves
       ELSE \* WaveExecutor: check budget after each wave
            /\ IF ~can_proceed(bm)
               THEN pc' = "returned" /\ UNCHANGED waves
               ELSE pc' = "wave_loop" /\ waves' = Tail(waves)
            /\ UNCHANGED remaining_tasks
    /\ batch' = {}
    /\ UNCHANGED <<mode, useReal, edges, estCost, callbacks, seen, taskStatus, results, task_order, co>>
    /\ UNCHANGED <<bm, ret, nSpend>>
    /\ UNCHANGED busVars
    /\ UNCHANGED extVars

ExecNext ==
    \/ Execute
    \/ SeqStep
    \/ ParStep
    \/ WaveExecute
    \/ WaveStep
    \/ WaveSeqNext
    \/ Resume
    \/ \E t \in Tasks : TaskStart(t)
    \/ \E t \in Tasks : TaskComplete(t)
    \/ \E t \in Tasks : TaskRaise(t)

(***************************************************************************)
(* Planner and Selector (planner.py, selector.py).  From here on money is  *)
(* carried in cents, so that role costs such as 0.07 stay whole numbers.   *)
(***************************************************************************)
None == <<>>
Some(x) == <<x>>
Max(a, b) == IF a >= b THEN a ELSE b

CONSERVATIVE == "conservative"
BALANCED == "balanced"
AGGRESSIVE == "aggressive"
BudgetPolicy == {CONSERVATIVE, BALANCED, AGGRESSIVE}

\* Selector.determine_staffing_level
determine_staffing_level(budget_policy, budget) ==
    IF budget_policy = CONSERVATIVE
    THEN [vps |-> 1, directors |-> 1, managers |-> 1, ics |-> 2]
    ELSE IF budget_policy = AGGRESSIVE
    THEN [vps |-> 3, directors |-> 4, managers |-> 6, ics |-> 12]
    ELSE IF budget < 5000
    THEN [vps |-> 1, directors |-> 2, managers |-> 2, ics |-> 4]
    ELSE IF budget < 20000
    THEN [vps |-> 2, directors |-> 3, managers |-> 4, ics |-> 8]
    ELSE [vps |-> 3, directors |-> 4, managers |-> 5, ics |-> 10]

\* Selector.estimate_role_cost, by level
estimate_role_cost(budget_policy, level) ==
    LET base_cost == CASE level = "C_SUITE" -> 100
                       [] level = "VP" -> 50
                       [] level = "DIRECTOR" -> 30
                       [] level = "MANAGER" -> 20
                       [] OTHER -> 10
    IN IF budget_policy = CONSERVATIVE THEN (base_cost * 7) \div 10
       ELSE IF budget_policy = AGGRESSIVE THEN (base_cost * 15) \div 10
       ELSE base_cost

\* A node id is kept as the tuple of the parts its f-string is built from:
\* <<kind, name, index, index>>; two ids are the same string exactly when
\* their tuples are equal.
\* _create_board_room: agent_ceo, agent_cto, agent_cfo
_create_board_room == {<<"ceo", "", 0, 0>>, <<"cto", "", 0, 0>>, <<"cfo", "", 0, 0>>}

vp_roles == <<"engineering", "product", "data">>
ic_roles == <<"engineer", "analyst", "designer", "qa">>

\* _create_vps: agent_vp_vp_<name>
_create_vps(count) ==
    {<<"vp", vp_roles[i], 0, 0>> : i \in 1..(IF count < 3 THEN count ELSE 3)}

\* _create_directors: agent_dir_<last part of the vp id>_<i>
_create_directors(vp_ids, count) ==
    LET directors_per_vp == Max(1, count \div Max(Cardinality(vp_ids), 1))
    IN {<<"dir", v[2], i, 0>> : v \in vp_ids, i \in 0..(directors_per_vp - 1)}

\* _create_managers: agent_mgr_<last two parts of the director id>_<i>
_create_managers(director_ids, count) ==
    LET managers_per_director == Max(1, count \div Max(Cardinality(director_ids), 1))
    IN {<<"mgr", d[2], d[3], i>> : d \in director_ids, i \in 0..(managers_per_director - 1)}

\* _create_ics: agent_ic_<last part of the manager id>_<role>_<i>; add_node
\* stores each under its id, so equal ids occupy one entry of oag.nodes
_create_ics(manager_ids, count) ==
    LET ics_per_manager == Max(1, count \div Max(Cardinality(manager_ids), 1))
    IN {<<"ic", ic_roles[(i % 4) + 1], m[4], i>> :
            m \in manager_ids, i \in 0..(ics_per_manager - 1)}

\* the agents of the OAG Planner.plan returns: oag.get_agents()
PlanAgents(budget_policy, budget) ==
    LET staffing == determine_staffing_level(budget_policy, budget)
        vps == _create_vps(staffing.vps)
        directors == _create_directors(vps, staffing.directors)
        managers == _create_managers(directors, staffing.managers)
        ics == _create_ics(managers, staffing.ics)
    IN _create_board_room \cup vps \cup directors \cup managers \cup ics

\* the number of AgentSpec objects Planner.plan builds and hands to oag.add_node
AddNodeCalls(budget_policy, budget) ==
    LET staffing == determine_staffing_level(budget_policy, budget)
        vps == _create_vps(staffing.vps)
        directors == _create_directors(vps, staffing.directors)
        managers == _create_managers(directors, staffing.managers)
        directors_per_vp == Max(1, staffing.directors \div Max(Cardinality(vps), 1))
        managers_per_director == Max(1, staffing.managers \div Max(Cardinality(directors), 1))
        ics_per_manager == Max(1, staffing.ics \div Max(Cardinality(managers), 1))
    IN  [c_suite |-> 3,
         vps |-> Cardinality(vps),
         directors |-> Cardinality(vps) * directors_per_vp,
         managers |-> Cardinality(directors) * managers_per_director,
         ics |-> Cardinality(managers) * ics_per_manager]

AgentLevel(id) ==
    CASE id[1] \in {"ceo", "cto", "cfo"} -> "C_SUITE"
      [] id[1] = "vp" -> "VP"
      [] id[1] = "dir" -> "DIRECTOR"
      [] id[1] = "mgr" -> "MANAGER"
      [] OTHER -> "IC"

\* Planner._determine_budget_policy
_determine_budget_policy(budget, num_objectives) ==
    IF budget < 2000 \/ num_objectives > 5 THEN CONSERVATIVE
    ELSE IF budget > 10000 /\ num_objectives <= 3 THEN AGGRESSIVE
    ELSE BALANCED

RECURSIVE SumCosts(_, _)
SumCosts(budget_policy, ids) ==
    IF ids = {} THEN 0
    ELSE LET id == CHOOSE x \in ids : TRUE
         IN estimate_role_cost(budget_policy, AgentLevel(id)) * 10
              + SumCosts(budget_policy, ids \ {id})

\* the six standard tasks of _create_tasks, chained by _create_task_dependencies
NumStandardTasks == 6
_create_tasks(budget_policy) ==
    [i \in 1..NumStandardTasks |->
        [est |-> estimate_role_cost(budget_policy, "IC"), status |-> PLANNED]]

\* Planner._forecast_cost
_forecast_cost(budget_policy, agents, tasks) ==
    SumCosts(budget_policy, agents) + Len(tasks) * estimate_role_cost(budget_policy, "IC")

\* Planner.plan(prd, budget_usd) with a Selector of the given policy; the
\* project id is a fresh uuid4
PlannerPlan(budget_policy, prd, budget_usd, uuid) ==
    LET agents == PlanAgents(budget_policy, budget_usd)
        tasks == _create_tasks(budget_policy)
    IN [project_id |-> uuid, title |-> prd.title,
        policy |-> _determine_budget_policy(budget_usd, prd.objectives),
        hard_cap_usd |-> budget_usd, soft_cap_usd |-> (budget_usd * 8) \div 10,
        forecast_cost_usd |-> _forecast_cost(budget_policy, agents, tasks),
        actual_cost_usd |-> 0, agents |-> agents, tasks |-> tasks]

(***************************************************************************)
(* BoardRoom, the four-phase orchestrator (orchestrator.py)                *)
(***************************************************************************)
\* uuid.uuid4(): a value no caller passes as a project id
uuid4(n) == 100 + n

\* BoardRoom._state: the keys the phases set, None while a key is absent
EmptyState ==
    [problem |-> None, budget_usd |-> None, model_hint |-> None, policy |-> None,
     questions |-> None, answers |-> None, prd |-> None, oag |-> None]

\* BoardRoom.__init__ with the project id already resolved
BoardRoomNew(project_id, mock) ==
    [project_id |-> project_id, mock_mode |-> mock, _state |-> EmptyState,
     prd |-> None, oag |-> None, budget_manager |-> None, cfo |-> None,
     metrics_engine |-> None, patch_manager |-> None, events |-> <<>>]

\* str.lower() on the policy strings a caller passes
Lower(s) == IF s = "BALANCED" THEN "balanced" ELSE s

\* BudgetManager(oag.budget): a manager over the budget object of the OAG obj
BudgetManagerOn(o) ==
    [spent |-> 0, spend_history |-> <<>>, alerts |-> <<>>,
     soft_cap_usd |-> o.soft_cap_usd, hard_cap_usd |-> o.hard_cap_usd,
     actual_cost_usd |-> o.actual_cost_usd, budget |-> o.obj]

\* OAG.model_dump(): the content of the OAG, without the object's identity
model_dump(o) ==
    [project_id |-> o.project_id, title |-> o.title, policy |-> o.policy,
     hard_cap_usd |-> o.hard_cap_usd, soft_cap_usd |-> o.soft_cap_usd,
     forecast_cost_usd |-> o.forecast_cost_usd, actual_cost_usd |-> o.actual_cost_usd,
     agents |-> o.agents, tasks |-> o.tasks]

\* OAG.model_validate(dict): a new OAG object obj with that content
model_validate(d, obj) ==
    [obj |-> obj, project_id |-> d.project_id, title |-> d.title, policy |-> d.policy,
     hard_cap_usd |-> d.hard_cap_usd, soft_cap_usd |-> d.soft_cap_usd,
     forecast_cost_usd |-> d.forecast_cost_usd, actual_cost_usd |-> d.actual_cost_usd,
     agents |-> d.agents, tasks |-> d.tasks]

\* hold the OAG o and (re)initialise BudgetManager, CFO, MetricsEngine, PatchManager on it
InstallComponents(b, o) ==
    [b EXCEPT !.oag = Some(o), !.budget_manager = Some(BudgetManagerOn(o)),
              !.cfo = Some(o.obj), !.metrics_engine = Some(o.obj),
              !.patch_manager = Some(o.obj)]

\* _emit_event: append to self.events
_emit_event(b, phase, cost_delta) ==
    [b EXCEPT !.events = Append(@, [phase |-> phase, cost_delta |-> cost_delta])]

\* what the discovery component returns in real mode: a number of questions, or -1 when it raises
DiscoveryOutcomes == {-1, 3}

\* BoardRoom.startup_phase; the result is the BoardRoom after the call, the
\* exception raised ("none" if it returned) and the number of questions returned
startup_phase_store_first(b, problem, budget_usd, policy, discovery) ==
    LET s1 == [b._state EXCEPT !.problem = Some(problem), !.budget_usd = Some(budget_usd),
                               !.model_hint = Some("unset")]
        b0 == [b EXCEPT !._state = s1]
    IN IF problem = "" \/ budget_usd <= 0 \/ Lower(policy) \notin BudgetPolicy
       THEN [br |-> b0, raised |-> "InvalidInput", questions |-> 0]
       ELSE LET b1 == [b0 EXCEPT !._state.policy = Some(Lower(policy))]
            IN IF ~b.mock_mode /\ discovery < 0
               THEN [br |-> b1, raised |-> "ProviderError", questions |-> 0]
               ELSE LET questions == IF b.mock_mode THEN 5 ELSE discovery
                        b2 == [b1 EXCEPT !._state.questions = Some(questions)]
                    IN [br |-> _emit_event(b2, "startup", IF b.mock_mode THEN 0 ELSE 1),
                        raised |-> "none", questions |-> questions]

startup_phase(b, problem, budget_usd, policy, discovery) ==
    IF problem = "" \/ budget_usd <= 0 \/ Lower(policy) \notin BudgetPolicy
    THEN [br |-> b, raised |-> "InvalidInput", questions |-> 0]
    ELSE LET s1 == [b._state EXCEPT !.problem = Some(problem), !.budget_usd = Some(budget_usd),
                                    !.model_hint = Some("unset"),
                                    !.policy = Some(Lower(policy))]
             b1 == [b EXCEPT !._state = s1]
         IN IF ~b.mock_mode /\ discovery < 0
            THEN [br |-> b1, raised |-> "ProviderError", questions |-> 0]
            ELSE LET questions == IF b.mock_mode THEN 5 ELSE discovery
                     b2 == [b1 EXCEPT !._state.questions = Some(questions)]
                 IN [br |-> _emit_event(b2, "startup", IF b.mock_mode THEN 0 ELSE 1),
                     raised |-> "none", questions |-> questions]

\* the PRD dict: title, problem statement, budget, users and the number of objectives
MockPRD(problem, budget_usd, answers) ==
    [title |-> "Mock Project", problem_statement |-> problem, budget |-> budget_usd,
     users |-> answers[1], objectives |-> 2]

\* what the discovery component builds from the answers in real mode
RealPRDs(problem, budget_usd, answers) ==
    {[title |-> "Project", problem_statement |-> problem, budget |-> budget_usd,
      users |-> answers[1], objectives |-> n] : n \in {0, 1}}

\* BoardRoom.process_discovery; prd_data is what the real-mode component returned
process_discovery(b, answers, problem, budget_usd, policy, prd_data) ==
    IF answers = <<>> \/ Lower(policy) \notin BudgetPolicy
    THEN [br |-> b, raised |-> "InvalidInput", prd |-> None]
    ELSE LET data == IF b.mock_mode THEN MockPRD(problem, budget_usd, answers) ELSE prd_data
             b1 == [b EXCEPT !._state.answers = Some(answers), !._state.prd = Some(data),
                             !.prd = Some(data)]
         IN [br |-> _emit_event(b1, "discovery", IF b.mock_mode THEN 0 ELSE 2),
             raised |-> "none", prd |-> Some(data)]

\* the OAG plan_organization builds in mock mode: one CEO, one task estimated at $10
MockOAG(project_id, prd, budget_usd, policy) ==
    [project_id |-> project_id, title |-> prd.title, policy |-> policy,
     hard_cap_usd |-> budget_usd, soft_cap_usd |-> (budget_usd * 8) \div 10,
     forecast_cost_usd |-> budget_usd \div 2, actual_cost_usd |-> 0,
     agents |-> {<<"ceo", "", 0, 0>>}, tasks |-> <<[est |-> 1000, status |-> PLANNED]>>]

\* BoardRoom.plan_organization; prd is the argument (None or a PRD), id a fresh identity
plan_organization(b, prd, budget_usd, policy, id) ==
    IF prd = None \/ Lower(policy) \notin BudgetPolicy
    THEN [br |-> b, raised |-> "InvalidInput", oag |-> None]
    ELSE LET content == IF b.mock_mode
                        THEN MockOAG(b.project_id, prd[1], budget_usd, Lower(policy))
                        ELSE PlannerPlan(Lower(policy), prd[1], budget_usd, uuid4(id))
             o == model_validate(content, id)
             b1 == InstallComponents(b, o)
             b2 == [b1 EXCEPT !._state.oag = Some(model_dump(o))]
         IN [br |-> _emit_event(b2, "planning", IF b.mock_mode THEN 0 ELSE 5),
             raised |-> "none", oag |-> Some(o)]

\* Executor.execute(parallel=True) on a chain of tasks, each depending on the
\* one before it: a task runs when the budget gate lets it, is charged its
\* estimate and ends DONE; a budget-blocked task fails and ends the run
RECURSIVE RunChain(_, _, _)
RunChain(b, tasks, i) ==
    IF i > Len(tasks) \/ ~can_proceed(b)
    THEN [bm |-> b, tasks |-> tasks]
    ELSE RunChain(record_spend(b, tasks[i].est).bm, [tasks EXCEPT ![i].status = DONE], i + 1)

\* BoardRoom.execute(oag); oag is the argument (None or an OAG object)
execute_spent_as_cost(b, oag) ==
    LET b0 == IF oag # None THEN InstallComponents(b, oag[1]) ELSE b
    IN IF b0.oag = None
       THEN [br |-> b0, raised |-> "InvalidInput", total_cost |-> 0, tasks_completed |-> None]
       ELSE LET run == RunChain(b0.budget_manager[1], b0.oag[1].tasks, 1)
                b1 == IF b.mock_mode THEN b0
                      ELSE [b0 EXCEPT !.budget_manager = Some(run.bm),
                                      !.oag = Some([@[1] EXCEPT
                                                 !.tasks = run.tasks,
                                                 !.actual_cost_usd = run.bm.actual_cost_usd])]
                total_cost == b1.budget_manager[1].spent
            IN [br |-> _emit_event(b1, "execution", total_cost), raised |-> "none",
                total_cost |-> total_cost,
                tasks_completed |-> IF b.mock_mode THEN Some(Len(b0.oag[1].tasks)) ELSE None]

execute(b, oag) ==
    LET b0 == IF oag # None THEN InstallComponents(b, oag[1]) ELSE b
    IN IF b0.oag = None
       THEN [br |-> b0, raised |-> "InvalidInput", total_cost |-> 0, tasks_completed |-> None]
       ELSE LET run == RunChain(b0.budget_manager[1], b0.oag[1].tasks, 1)
                b1 == IF b.mock_mode THEN b0
                      ELSE [b0 EXCEPT !.budget_manager = Some(run.bm),
                                      !.oag = Some([@[1] EXCEPT
                                                 !.tasks = run.tasks,
                                                 !.actual_cost_usd = run.bm.actual_cost_usd])]
                total_cost == IF b.mock_mode THEN 10 ELSE b1.budget_manager[1].spent
            IN [br |-> _emit_event(b1, "execution", total_cost), raised |-> "none",
                total_cost |-> total_cost,
                tasks_completed |-> IF b.mock_mode THEN Some(Len(b0.oag[1].tasks)) ELSE None]

\* BoardRoom.to_dict
to_dict(b) ==
    [project_id |-> b.project_id, state |-> b._state, events |-> b.events,
     prd |-> b.prd,
     oag |-> IF b.oag # None THEN Some(model_dump(b.oag[1])) ELSE None,
     budget |-> IF b.budget_manager # None
                THEN Some([spent |-> b.budget_manager[1].spent,
                           remaining |-> get_remaining(b.budget_manager[1]),
                           alerts |-> b.budget_manager[1].alerts])
                ELSE None]

\* BoardRoom.from_dict; id is the identity of the OAG object it creates
from_dict_no_budget(data, mock, id) ==
    LET b0 == [BoardRoomNew(data.project_id, mock) EXCEPT !._state = data.state,
                                                          !.prd = data.prd]
    IN IF data.oag # None THEN InstallComponents(b0, model_validate(data.oag[1], id)) ELSE b0

from_dict(data, mock, id) ==
    LET b0 == [BoardRoomNew(data.project_id, mock) EXCEPT !._state = data.state,
                                                          !.prd = data.prd]
        b1 == IF data.oag # None
              THEN InstallComponents(b0, model_validate(data.oag[1], id)) ELSE b0
    IN IF data.budget # None /\ b1.budget_manager # None
       THEN [b1 EXCEPT !.budget_manager =
                Some([b1.budget_manager[1] EXCEPT !.spent = data.budget[1].spent,
                                                  !.alerts = data.budget[1].alerts])]
       ELSE b1

\* str() of a BudgetAlert member, which json.dump(..., default=str) writes for it
EnumStr(level) ==
    CASE level = WARNING -> "BudgetAlert.WARNING"
      [] level = CRITICAL -> "BudgetAlert.CRITICAL"
      [] level = EXCEEDED_SOFT -> "BudgetAlert.EXCEEDED_SOFT"
      [] level = EMERGENCY -> "BudgetAlert.EMERGENCY"
      [] OTHER -> "BudgetAlert.NORMAL"

\* json.dump then json.load of a to_dict() document
json_round_trip(data) ==
    IF data.budget = None THEN data
    ELSE LET alerts == data.budget[1].alerts
             written == [i \in 1..Len(alerts) |->
                            [alerts[i] EXCEPT !.level = EnumStr(alerts[i].level)]]
         IN [data EXCEPT !.budget = Some([data.budget[1] EXCEPT !.alerts = written])]

\* BoardRoom.load_state on the instance b, given the parsed document
load_state(b, data, id) ==
    LET b0 == [b EXCEPT !._state = data.state,
                        !.prd = IF data.prd # None THEN data.prd ELSE @]
    IN IF data.oag # None THEN InstallComponents(b0, model_validate(data.oag[1], id)) ELSE b0

\* what callers pass to the phases
Problems == {"", "Test project"}
BudgetArgs == {-10000, 0, 10000}
PositiveBudgetArgs == {10000}
PolicyArgs == {"BALANCED", "invalid"}
AnswerArgs == {<<>>, <<"Developers">>}
\* an OAG a caller built and hands to execute(oag): three chained $10 tasks under a $20 hard cap
SuppliedOAG ==
    [project_id |-> 7, title |-> "Supplied", policy |-> BALANCED,
     hard_cap_usd |-> 2000, soft_cap_usd |-> 1600, forecast_cost_usd |-> 0,
     actual_cost_usd |-> 0, agents |-> {<<"ceo", "", 0, 0>>},
     tasks |-> [i \in 1..3 |-> [est |-> 1000, status |-> PLANNED]]]

NoCall ==
    [op |-> "none", raised |-> "none", problem |-> "", budget_usd |-> 0, policy |-> "",
     answers |-> <<>>, questions |-> 0, prd |-> None, oag |-> None, total_cost |-> 0,
     tasks_completed |-> None]

RoomIdle ==
    /\ mockEnv = TRUE
    /\ br = BoardRoomNew(1, TRUE)
    /\ rcall = NoCall
    /\ file = None
    /\ loaded = None
    /\ restored = None
    /\ nCalls = 0
    /\ nextId = 1

\* BoardRoom(project_id) or BoardRoom(), in a process with or without PLUGAH_MODE=mock
RoomInit ==
    /\ mockEnv \in BOOLEAN
    /\ \E project_id \in {None, Some(1)} :
          br = BoardRoomNew(IF project_id = None THEN uuid4(0) ELSE project_id[1], mockEnv)
    /\ rcall = NoCall
    /\ file = None
    /\ loaded = None
    /\ restored = None
    /\ nCalls = 0
    /\ nextId = 1

\* the budget and policy a caller passes to a later phase: the ones it gave
\* startup_phase when that ran ("must match startup_phase"), any otherwise
BudgetsToPass(b) ==
    IF b._state.budget_usd # None THEN {b._state.budget_usd[1]} ELSE PositiveBudgetArgs
PoliciesToPass(b) ==
    (IF b._state.policy # None THEN {b._state.policy[1]} ELSE {"BALANCED"})
        \cup {"invalid"}

\* A phase call ends the observation of the instance as it was: the caller
\* drops br2 and br3 and unlinks the state file, as test_api.py does.
\* a call that raised leaves the count of completed calls alone
Counted(raised) == IF raised = "none" THEN nCalls + 1 ELSE nCalls

CallStartupPhase ==
    /\ nCalls < MaxRoomCalls
    /\ \E problem \in Problems, budget_usd \in BudgetArgs, policy \in PolicyArgs,
          discovery \in (IF br.mock_mode THEN {0} ELSE DiscoveryOutcomes) :
          LET r == startup_phase(br, problem, budget_usd, policy, discovery)
          IN /\ br' = r.br
             /\ rcall' = [NoCall EXCEPT !.op = "startup_phase", !.raised = r.raised,
                                        !.problem = problem, !.budget_usd = budget_usd,
                                        !.policy = policy, !.questions = r.questions]
             /\ nCalls' = Counted(r.raised)
    /\ file' = None
    /\ loaded' = None
    /\ restored' = None
    /\ UNCHANGED <<mockEnv, nextId>>
    /\ UNCHANGED <<oldVars, extVarsNotRoom>>

CallProcessDiscovery ==
    /\ nCalls < MaxRoomCalls
    /\ \E answers \in AnswerArgs, budget_usd \in BudgetsToPass(br),
          policy \in PoliciesToPass(br) :
          \E prd_data \in RealPRDs("Test project", budget_usd, <<"Developers">>) :
             LET r == process_discovery(br, answers, "Test project", budget_usd, policy, prd_data)
             IN /\ br' = r.br
                /\ rcall' = [NoCall EXCEPT !.op = "process_discovery", !.raised = r.raised,
                                           !.problem = "Test project",
                                           !.budget_usd = budget_usd, !.policy = policy,
                                           !.answers = answers, !.prd = r.prd]
                /\ nCalls' = Counted(r.raised)
    /\ file' = None
    /\ loaded' = None
    /\ restored' = None
    /\ UNCHANGED <<mockEnv, nextId>>
    /\ UNCHANGED <<oldVars, extVarsNotRoom>>

CallPlanOrganization ==
    /\ nCalls < MaxRoomCalls
    /\ \E prd \in {None, br.prd}, budget_usd \in BudgetsToPass(br),
          policy \in PoliciesToPass(br) :
          LET r == plan_organization(br, prd, budget_usd, policy, nextId)
          IN /\ br' = r.br
             /\ rcall' = [NoCall EXCEPT !.op = "plan_organization", !.raised = r.raised,
                                        !.budget_usd = budget_usd, !.policy = policy,
                                        !.prd = prd, !.oag = r.oag]
             /\ nCalls' = Counted(r.raised)
             /\ nextId' = IF r.raised = "none" THEN nextId + 1 ELSE nextId
    /\ file' = None
    /\ loaded' = None
    /\ restored' = None
    /\ UNCHANGED mockEnv
    /\ UNCHANGED <<oldVars, extVarsNotRoom>>

CallExecute ==
    /\ nCalls < MaxRoomCalls
    /\ \E oag \in {None, Some(model_validate(SuppliedOAG, nextId))} :
          LET r == execute(br, oag)
          IN /\ br' = r.br
             /\ rcall' = [NoCall EXCEPT !.op = "execute", !.raised = r.raised, !.oag = oag,
                                        !.total_cost = r.total_cost,
                                        !.tasks_completed = r.tasks_completed]
             /\ nCalls' = Counted(r.raised)
             /\ nextId' = IF oag # None THEN nextId + 1 ELSE nextId
    /\ file' = None
    /\ loaded' = None
    /\ restored' = None
    /\ UNCHANGED mockEnv
    /\ UNCHANGED <<oldVars, extVarsNotRoom>>

\* br3 = BoardRoom.from_dict(br.to_dict()); the OAG object it creates is a new
\* one.  Of br2 and br3 the caller keeps the one it made last.
CallFromDict ==
    /\ restored' = Some([of |-> br, got |-> from_dict(to_dict(br), mockEnv, nextId)])
    /\ loaded' = None
    /\ rcall' = [NoCall EXCEPT !.op = "from_dict"]
    /\ UNCHANGED <<mockEnv, br, file, nCalls, nextId>>
    /\ UNCHANGED <<oldVars, extVarsNotRoom>>

\* br.save_state(path)
CallSaveState ==
    /\ file' = Some([of |-> br, doc |-> json_round_trip(to_dict(br))])
    /\ loaded' = None
    /\ restored' = None
    /\ rcall' = [NoCall EXCEPT !.op = "save_state"]
    /\ UNCHANGED <<mockEnv, br, nCalls, nextId>>
    /\ UNCHANGED <<oldVars, extVarsNotRoom>>

\* br2 = BoardRoom() or BoardRoom(project_id); br2.load_state(path)
CallLoadState ==
    /\ file # None
    /\ \E project_id \in {uuid4(nextId), file[1].of.project_id} :
          loaded' = Some([of |-> file[1].of,
                          got |-> load_state(BoardRoomNew(project_id, mockEnv),
                                             file[1].doc, nextId)])
    /\ restored' = None
    /\ rcall' = [NoCall EXCEPT !.op = "load_state"]
    /\ UNCHANGED <<mockEnv, br, file, nCalls, nextId>>
    /\ UNCHANGED <<oldVars, extVarsNotRoom>>

RoomNext ==
    \/ CallStartupPhase
    \/ CallProcessDiscovery
    \/ CallPlanOrganization
    \/ CallExecute
    \/ CallFromDict
    \/ CallSaveState
    \/ CallLoadState

(***************************************************************************)
(* OAG, the organisation graph (oag_schema.py).  A dict is the set of its  *)
(* <<key, value>> items, no two with the same key.                         *)
(***************************************************************************)
MaxInitNodes == 2

NodeIds == {"agent_1", "task_1", "wrong_id"}

\* AgentSpec and TaskSpec objects: id, node_type and a role or description
NodeSpecs ==
    [id : NodeIds, node_type : {"agent", "task"}, text : {"first", "second"}]

Keys(d) == {item[1] : item \in d}

IsDict(d) == \A x \in d, y \in d : x[1] = y[1] => x = y

\* the dicts of at most n items with keys in NodeIds and values in NodeSpecs
RECURSIVE DictsUpTo(_)
DictsUpTo(n) ==
    IF n = 0 THEN {{}}
    ELSE LET smaller == DictsUpTo(n - 1)
         IN smaller \cup UNION {{d \cup {item} :
                                    item \in {x \in NodeIds \X NodeSpecs : x[1] \notin Keys(d)}} :
                                 d \in smaller}

\* the nodes arguments a caller passes to OAG(...)
NodesArgs == DictsUpTo(MaxInitNodes)

\* OAG.validate_node_types: TRUE when it returns v, FALSE when it raises
validate_node_types_accept_all(v) == TRUE

validate_node_types(v) == \A item \in v : item[1] = item[2].id

\* OAG.get_agents
get_agents(nodes) == {item \in nodes : item[2].node_type = "agent"}

\* OAG.get_tasks
get_tasks(nodes) == {item \in nodes : item[2].node_type = "task"}

\* OAG.get_node: self.nodes.get(node_id)
get_node(nodes, node_id) ==
    IF node_id \in Keys(nodes)
    THEN Some((CHOOSE item \in nodes : item[1] = node_id)[2])
    ELSE None

\* OAG.add_node: self.nodes[node.id] = node
add_node(nodes, node) ==
    {item \in nodes : item[1] # node.id} \cup {<<node.id, node>>}

NoOagRet ==
    [op |-> "none", raised |-> "none", nodes |-> {}, node_id |-> "", items |-> {},
     node |-> None]

OagIdle ==
    /\ oagObj = None
    /\ oagRet = NoOagRet

\* oag = OAG(meta=..., budget=..., nodes=nodes_arg, edges=[])
OagConstruct ==
    /\ oagObj = None
    /\ \E nodes_arg \in NodesArgs :
          IF validate_node_types(nodes_arg)
          THEN /\ oagObj' = Some(nodes_arg)
               /\ oagRet' = [NoOagRet EXCEPT !.op = "OAG", !.nodes = nodes_arg]
          ELSE /\ oagObj' = None
               /\ oagRet' = [NoOagRet EXCEPT !.op = "OAG", !.nodes = nodes_arg,
                                             !.raised = "ValidationError"]
    /\ UNCHANGED notOagVars

OagAddNode ==
    /\ oagObj # None
    /\ \E node \in NodeSpecs :
          /\ oagObj' = Some(add_node(oagObj[1], node))
          /\ oagRet' = [NoOagRet EXCEPT !.op = "add_node", !.node = Some(node)]
    /\ UNCHANGED notOagVars

OagGetAgents ==
    /\ oagObj # None
    /\ oagRet' = [NoOagRet EXCEPT !.op = "get_agents", !.items = get_agents(oagObj[1])]
    /\ UNCHANGED oagObj
    /\ UNCHANGED notOagVars

OagGetTasks ==
    /\ oagObj # None
    /\ oagRet' = [NoOagRet EXCEPT !.op = "get_tasks", !.items = get_tasks(oagObj[1])]
    /\ UNCHANGED oagObj
    /\ UNCHANGED notOagVars

OagGetNode ==
    /\ oagObj # None
    /\ \E node_id \in NodeIds :
          oagRet' = [NoOagRet EXCEPT !.op = "get_node", !.node_id = node_id,
                                     !.node = get_node(oagObj[1], node_id)]
    /\ UNCHANGED oagObj
    /\ UNCHANGED notOagVars

OagNext ==
    \/ OagConstruct
    \/ OagAddNode
    \/ OagGetAgents
    \/ OagGetTasks
    \/ OagGetNode

(***************************************************************************)
(* CacheManager, the file cache with a TTL per category (cache.py).  The   *)
(* cache directory is a dict from cache key to file; time.time() is `now`, *)
(* in seconds.                                                             *)
(***************************************************************************)
MaxTicks == 4

\* the clock is observed every TickSeconds seconds
TickSeconds == 200

\* self.ttl_config
ttl_agent_response == 600
ttl_tool_code == 300
ttl_default == 900

Categories == {"agent_response", "summary"}

\* self.ttl_config.get(category, self.ttl_config["default"])
ttl_config(category) ==
    CASE category = "agent_response" -> ttl_agent_response
      [] category = "tool_code" -> ttl_tool_code
      [] OTHER -> ttl_default

\* request data: a dict, written as the sequence of its keys in insertion order
RequestData == {<<"prompt">>, <<"prompt", "role">>, <<"role", "prompt">>}

\* the lookups callers make: agent responses by prompt and role, summaries by prompt
Requests ==
    {rq \in Categories \X RequestData : rq[1] = "agent_response" \/ rq[2] = <<"prompt">>}

\* values handed to set; pickle.dump raises on the last one
CacheValues == {"answer one", "answer two", "unpicklable"}

\* _get_cache_key: the category and the digest of json.dumps(data, sort_keys=True),
\* which is the same for two dicts exactly when they hold the same items
_get_cache_key_insertion_order(category, data) == <<category, data>>

_get_cache_key(category, data) == <<category, {data[i] : i \in DOMAIN data}>>

CorruptFile == [timestamp |-> 0, value |-> "", corrupt |-> TRUE]

FileAt(files, key) ==
    IF \E item \in files : item[1] = key
    THEN Some((CHOOSE item \in files : item[1] = key)[2])
    ELSE None

Unlink(files, key) == {item \in files : item[1] # key}

\* CacheManager.get at time t: the files left behind and the value returned
get_ttl_inclusive(files, t, category, data) ==
    LET cache_key == _get_cache_key(category, data)
        cached_data == FileAt(files, cache_key)
    IN IF cached_data = None THEN [files |-> files, value |-> None]
       ELSE IF cached_data[1].corrupt
       THEN [files |-> Unlink(files, cache_key), value |-> None]
       ELSE IF t - cached_data[1].timestamp >= ttl_config(category)
       THEN [files |-> Unlink(files, cache_key), value |-> None]
       ELSE [files |-> files, value |-> Some(cached_data[1].value)]

get(files, t, category, data) ==
    LET cache_key == _get_cache_key(category, data)
        cached_data == FileAt(files, cache_key)
    IN IF cached_data = None THEN [files |-> files, value |-> None]
       ELSE IF cached_data[1].corrupt
       THEN [files |-> Unlink(files, cache_key), value |-> None]
       ELSE IF t - cached_data[1].timestamp > ttl_config(category)
       THEN [files |-> Unlink(files, cache_key), value |-> None]
       ELSE [files |-> files, value |-> Some(cached_data[1].value)]

\* CacheManager.set at time t: open(cache_path, 'wb') truncates the file, and a
\* failed pickle.dump leaves it unreadable
set(files, t, category, data, value) ==
    LET cache_key == _get_cache_key(category, data)
        written == IF value = "unpicklable" THEN CorruptFile
                   ELSE [timestamp |-> t, value |-> value, corrupt |-> FALSE]
    IN Unlink(files, cache_key) \cup {<<cache_key, written>>}

\* a category name, cut at its underscores
CategoryParts(category) ==
    CASE category = "agent_response" -> <<"agent", "response">>
      [] category = "tool_code" -> <<"tool", "code">>
      [] category = "tool_code_reader" -> <<"tool", "code", "reader">>
      [] category = "tool_data" -> <<"tool", "data">>
      [] OTHER -> <<category>>

\* cache_file.name of a cache key: f"{category}_{digest}.cache", cut at its underscores;
\* the digest is hexadecimal and has none
FileNameParts(cache_key) == CategoryParts(cache_key[1]) \o <<cache_key[2]>>

\* cache_file.name.startswith(f"{category}_")
NameStartsWith(cache_key, category) ==
    LET name == FileNameParts(cache_key)
        prefix == CategoryParts(category)
    IN  Len(prefix) < Len(name) /\ \A i \in 1..Len(prefix) : name[i] = prefix[i]

\* CacheManager.clear: the files left behind and the count returned; "" stands for None
clear(files, category) ==
    LET deleted == {item \in files : category = "" \/ NameStartsWith(item[1], category)}
    IN  [files |-> files \ deleted, count |-> Cardinality(deleted)]

NoCacheRet ==
    [op |-> "none", category |-> "", data |-> <<>>, value |-> None, before |-> None,
     at |-> 0, count |-> 0]

CacheIdle ==
    /\ cacheFiles = {}
    /\ now = 0
    /\ cacheRet = NoCacheRet

\* the entries the tools keep: results by prompt, under categories that share a beginning
ToolCategories == {"tool_code", "tool_code_reader", "tool_data"}
ToolRequests == ToolCategories \X {<<"prompt">>, <<"role", "prompt">>}
ClearArgs == ToolCategories \cup {""}

ToolCacheSet ==
    /\ \E rq \in ToolRequests :
          /\ cacheFiles' = set(cacheFiles, now, rq[1], rq[2], "answer one")
          /\ cacheRet' = [NoCacheRet EXCEPT !.op = "set", !.category = rq[1],
                                            !.data = rq[2], !.value = Some("answer one"),
                                            !.at = now]
    /\ UNCHANGED now
    /\ UNCHANGED notCacheVars

\* cache.clear(category), cache.clear()
CacheClear ==
    /\ \E category \in ClearArgs :
          LET r == clear(cacheFiles, category)
          IN /\ cacheFiles' = r.files
             /\ cacheRet' = [NoCacheRet EXCEPT !.op = "clear", !.category = category,
                                               !.count = r.count, !.at = now]
    /\ UNCHANGED now
    /\ UNCHANGED notCacheVars

CacheClearNext ==
    \/ ToolCacheSet
    \/ CacheClear

CacheSet ==
    /\ \E rq \in Requests, value \in CacheValues :
          /\ cacheFiles' = set(cacheFiles, now, rq[1], rq[2], value)
          /\ cacheRet' = [NoCacheRet EXCEPT !.op = "set", !.category = rq[1],
                                            !.data = rq[2], !.value = Some(value),
                                            !.at = now]
    /\ UNCHANGED now
    /\ UNCHANGED notCacheVars

CacheGet ==
    /\ \E rq \in Requests :
          LET r == get(cacheFiles, now, rq[1], rq[2])
          IN /\ cacheFiles' = r.files
             /\ cacheRet' = [NoCacheRet EXCEPT
                                !.op = "get", !.category = rq[1], !.data = rq[2],
                                !.value = r.value, !.at = now,
                                !.before = FileAt(cacheFiles, _get_cache_key(rq[1], rq[2]))]
    /\ UNCHANGED now
    /\ UNCHANGED notCacheVars

\* time passes
Tick ==
    /\ now < MaxTicks * TickSeconds
    /\ now' = now + TickSeconds
    /\ UNCHANGED <<cacheFiles, cacheRet>>
    /\ UNCHANGED notCacheVars

CacheNext ==
    \/ CacheSet
    \/ CacheGet
    \/ Tick

(***************************************************************************)
(* Tool adapters (adapters/base.py, github_issues.py, gdrive_docs.py).     *)
(* env is the process environment: the DRY_RUN string and whether the      *)
(* credentials of each adapter are configured.                             *)
(***************************************************************************)
DryRunValues == {"", "0", "1", "true", "True", "YES"}

\* str.lower() on the values DRY_RUN takes
EnvLower(s) ==
    CASE s = "True" -> "true"
      [] s = "YES" -> "yes"
      [] OTHER -> s

\* os.getenv("DRY_RUN", "").lower() in {"1", "true", "yes"}
is_dry_run(e) == EnvLower(e.DRY_RUN) \in {"1", "true", "yes"}

Environments == [DRY_RUN : DryRunValues, github : BOOLEAN, gdrive : BOOLEAN]

\* GitHubIssuesAdapter.__init__: _dry and the credentials are read here
GitHubIssuesAdapterNew(e) == [_dry |-> is_dry_run(e), creds |-> e.github]

\* GDriveDocsAdapter.__init__: _dry, _parent and the access token are read here
GDriveDocsAdapterNew(e) == [_dry |-> is_dry_run(e), creds |-> e.gdrive]

\* ToolRegistry.default()
ToolRegistryDefault(e) ==
    [github_issues |-> GitHubIssuesAdapterNew(e), gdrive_docs |-> GDriveDocsAdapterNew(e)]

AdapterNames == {"github_issues", "gdrive_docs"}

\* capabilities(), and an action no adapter knows
Capabilities(name) ==
    IF name = "github_issues" THEN {"create_issue", "list_issues"} ELSE {"create_doc"}
PayloadActions == {"create_issue", "list_issues", "create_doc", "unknown"}

\* run(payload) of either adapter: whether the result holds dry_run: True and
\* whether httpx was called
run(adapter, name, action) ==
    IF adapter._dry \/ ~adapter.creds
    THEN [dry_run |-> TRUE, network |-> FALSE]
    ELSE [dry_run |-> FALSE, network |-> action \in Capabilities(name)]

NoAdRet ==
    [op |-> "none", name |-> "", action |-> "", dry_run |-> FALSE, network |-> FALSE,
     flag |-> FALSE, creds |-> FALSE]

AdapterIdle ==
    /\ env = [DRY_RUN |-> "", github |-> FALSE, gdrive |-> FALSE]
    /\ adapters = None
    /\ adRet = NoAdRet

\* the process starts with any environment
AdapterInit ==
    /\ env \in Environments
    /\ adapters = None
    /\ adRet = NoAdRet

\* os.environ is changed (monkeypatch.setenv / delenv)
SetEnv ==
    /\ \E e \in Environments :
          /\ e # env
          /\ env' = e
    /\ adRet' = NoAdRet
    /\ UNCHANGED adapters
    /\ UNCHANGED notAdapterVars

\* reg = ToolRegistry.default()
RegistryDefault ==
    /\ adapters' = Some(ToolRegistryDefault(env))
    /\ adRet' = [NoAdRet EXCEPT !.op = "default"]
    /\ UNCHANGED env
    /\ UNCHANGED notAdapterVars

\* reg.get(name).run({"action": action, ...})
AdapterRun ==
    /\ adapters # None
    /\ \E name \in AdapterNames, action \in PayloadActions :
          LET r == run(adapters[1][name], name, action)
          IN adRet' = [NoAdRet EXCEPT !.op = "run", !.name = name, !.action = action,
                                      !.dry_run = r.dry_run, !.network = r.network,
                                      !.flag = is_dry_run(env),
                                      !.creds = IF name = "github_issues" THEN env.github
                                                ELSE env.gdrive]
    /\ UNCHANGED <<env, adapters>>
    /\ UNCHANGED notAdapterVars

AdapterNext ==
    \/ SetEnv
    \/ RegistryDefault
    \/ AdapterRun

(***************************************************************************)
(* Callers of Planner.plan: `plan` is the list of the OAGs one Planner     *)
(* returned, each with the arguments of the call.                          *)
(***************************************************************************)
MaxPlans == 2

\* budget_usd arguments, in cents, on both sides of the bands at $50 and $200
PlanBudgets == {3000, 4999, 5000, 10000, 19999, 20000, 30000}

\* the PRDs of test_staffing_levels (one objective) and one of six objectives
PlanPRDs == {[title |-> "Test Project", objectives |-> n] : n \in {1, 6}}

PlanIdle == plan = <<>>

\* oag = Planner(Selector(budget_policy)).plan(prd, budget_usd)
CallPlan ==
    /\ Len(plan) < MaxPlans
    /\ \E budget_policy \in BudgetPolicy, prd \in PlanPRDs, budget_usd \in PlanBudgets :
          plan' = Append(plan, [budget_policy |-> budget_policy, prd |-> prd,
                                budget_usd |-> budget_usd,
                                oag |-> PlannerPlan(budget_policy, prd, budget_usd,
                                                    uuid4(Len(plan)))])
    /\ UNCHANGED <<org, metric>>
    /\ UNCHANGED notCalcVars

PlanNext == CallPlan

(***************************************************************************)
(* OrgPlanner, the lightweight planner (core/planner.py).  `org` is the    *)
(* list of the graphs one OrgPlanner returned, each with its arguments.    *)
(***************************************************************************)
MaxOrgPlans == 3

\* core.models.BudgetPolicy
CHEAP == "cheap"
FAST == "fast"
CoreBudgetPolicy == {BALANCED, CHEAP, FAST}

OrgProblems ==
    {"Generic project", "Ship a Slack summarizer", "slack bot", "SUMMARIZER for Slack"}

\* the words of problem.lower()
LowerWords(problem) ==
    CASE problem = "Generic project" -> {"generic", "project"}
      [] problem = "Ship a Slack summarizer" -> {"ship", "a", "slack", "summarizer"}
      [] problem = "slack bot" -> {"slack", "bot"}
      [] problem = "SUMMARIZER for Slack" -> {"summarizer", "for", "slack"}
      [] OTHER -> {}

\* the policy hint: fewer ICs if CHEAP, more if FAST
ic_count_cheap_more(policy) ==
    IF policy = CHEAP THEN 4 ELSE IF policy = FAST THEN 2 ELSE 3

ic_count(policy) ==
    IF policy = CHEAP THEN 2 ELSE IF policy = FAST THEN 4 ELSE 3

\* OrgPlanner.plan: the names of c_suite and ics and the roles of the tasklets
OrgPlannerPlan(prd_id, policy, problem) ==
    IF "slack" \in LowerWords(problem) /\ "summarizer" \in LowerWords(problem)
    THEN [prd_id |-> prd_id, c_suite |-> <<"CEO", "VP Eng", "CFO">>,
          ics |-> <<<<"IC", "Summarizer">>, <<"IC", "Integrations">>>>,
          tasklets |-> <<[id |-> 1, role |-> <<"IC", "Summarizer">>],
                         [id |-> 2, role |-> <<"IC", "Integrations">>]>>]
    ELSE [prd_id |-> prd_id, c_suite |-> <<"CEO", "CTO", "CFO">>,
          ics |-> [i \in 1..ic_count(policy) |-> <<"IC", i>>],
          tasklets |-> [i \in 1..ic_count(policy) |-> [id |-> i, role |-> <<"IC", i>>]]]

OrgIdle == org = <<>>

\* graph = OrgPlanner().plan("prd1", policy, problem)
CallOrgPlan ==
    /\ Len(org) < MaxOrgPlans
    /\ \E policy \in CoreBudgetPolicy, problem \in OrgProblems :
          org' = Append(org, [policy |-> policy, problem |-> problem,
                              graph |-> OrgPlannerPlan("prd1", policy, problem)])
    /\ UNCHANGED <<plan, metric>>
    /\ UNCHANGED notCalcVars

OrgNext == CallOrgPlan

(***************************************************************************)
(* MetricsEngine, attainment of key results and KPIs (metrics.py).  A      *)
(* float is carried as an exact fraction num/den with den > 0.             *)
(***************************************************************************)
MaxKeyResults == 2

Frac(n, d) == [num |-> n, den |-> d]
FracLE(a, b) == a.num * b.den <= b.num * a.den
FracEq(a, b) == a.num * b.den = b.num * a.den
FracAdd(a, b) == Frac(a.num * b.den + b.num * a.den, a.den * b.den)
FracMin(a, b) == IF FracLE(a, b) THEN a ELSE b

\* oag_schema.Direction
GTE == ">="
LTE == "<="
EQ == "="
Direction == {GTE, LTE, EQ}

\* target and current values of a metric
MetricValues == {-50, 0, 50, 100, 300}

\* KPI objects: target, current and direction
KPIs == [direction : Direction, target : MetricValues, current : MetricValues]

\* KeyResult objects an OKR is built from
KeyResults ==
    {[direction |-> GTE, target |-> 100, current |-> 50],
     [direction |-> GTE, target |-> 100, current |-> -50],
     [direction |-> GTE, target |-> 100, current |-> 300],
     [direction |-> LTE, target |-> 100, current |-> 50],
     [direction |-> LTE, target |-> -50, current |-> 50],
     [direction |-> EQ, target |-> 100, current |-> 100]}

\* the values update_kpi / update_key_result store for the one metric id they are given
StoredValues == {-50, 100}

\* the attainment of one metric: the three direction branches and the cap at 100
attainment_no_cap(direction, current, target) ==
    IF direction = GTE
    THEN (IF target > 0 THEN Frac(current * 100, target) ELSE Frac(0, 1))
    ELSE IF direction = LTE
    THEN (IF current > 0 THEN Frac(target * 100, current) ELSE Frac(100, 1))
    ELSE (IF current = target THEN Frac(100, 1) ELSE Frac(0, 1))

attainment_of(direction, current, target) ==
    LET attainment ==
            IF direction = GTE
            THEN (IF target > 0 THEN Frac(current * 100, target) ELSE Frac(0, 1))
            ELSE IF direction = LTE
            THEN (IF current > 0 THEN Frac(target * 100, current) ELSE Frac(100, 1))
            ELSE (IF current = target THEN Frac(100, 1) ELSE Frac(0, 1))
    IN FracMin(attainment, Frac(100, 1))

\* self.kpi_values.get(kpi.id, kpi.current), self.kr_values.get(kr.id, kr.current)
ValueOr(stored, current) == IF stored # None THEN stored[1] ELSE current

\* MetricsEngine.calculate_kpi_attainment
calculate_kpi_attainment(kpi_values, kpi) ==
    attainment_of(kpi.direction, ValueOr(kpi_values, kpi.current), kpi.target)

\* the running total of calculate_okr_attainment over key_results[i..]; kr_values
\* holds a value for the id of the first key result only
RECURSIVE total_attainment(_, _, _)
total_attainment(kr_values, key_results, i) ==
    IF i > Len(key_results) THEN Frac(0, 1)
    ELSE LET kr == key_results[i]
             current == IF i = 1 THEN ValueOr(kr_values, kr.current) ELSE kr.current
         IN FracAdd(attainment_of(kr.direction, current, kr.target),
                    total_attainment(kr_values, key_results, i + 1))

\* MetricsEngine.calculate_okr_attainment
calculate_okr_attainment(kr_values, key_results) ==
    IF key_results = <<>> THEN Frac(0, 1)
    ELSE LET total == total_attainment(kr_values, key_results, 1)
         IN Frac(total.num, total.den * Len(key_results))

\* the key_results lists of at most n entries
RECURSIVE KeyResultLists(_)
KeyResultLists(n) ==
    IF n = 0 THEN {<<>>}
    ELSE LET shorter == KeyResultLists(n - 1)
         IN shorter \cup UNION {{Append(l, kr) : kr \in KeyResults} : l \in shorter}

NoMetricRet ==
    [op |-> "none", direction |-> "", target |-> 0, current |-> 0, n |-> 0,
     attainment |-> Frac(0, 1)]

MetricIdle == metric = [kpi_values |-> None, kr_values |-> None, ret |-> NoMetricRet]

\* engine.update_kpi(kpi_id, value)
UpdateKpi ==
    /\ \E value \in StoredValues :
          metric' = [metric EXCEPT !.kpi_values = Some(value), !.ret = NoMetricRet]
    /\ UNCHANGED <<plan, org>>
    /\ UNCHANGED notCalcVars

\* engine.update_key_result(kr_id, value)
UpdateKeyResult ==
    /\ \E value \in StoredValues :
          metric' = [metric EXCEPT !.kr_values = Some(value), !.ret = NoMetricRet]
    /\ UNCHANGED <<plan, org>>
    /\ UNCHANGED notCalcVars

\* engine.calculate_kpi_attainment(kpi)
CalculateKpiAttainment ==
    /\ \E kpi \in KPIs :
          metric' = [metric EXCEPT !.ret =
              [op |-> "calculate_kpi_attainment", direction |-> kpi.direction,
               target |-> kpi.target, current |-> ValueOr(metric.kpi_values, kpi.current),
               n |-> 1,
               attainment |-> calculate_kpi_attainment(metric.kpi_values, kpi)]]
    /\ UNCHANGED <<plan, org>>
    /\ UNCHANGED notCalcVars

\* engine.calculate_okr_attainment(okr)
CalculateOkrAttainment ==
    /\ \E key_results \in KeyResultLists(MaxKeyResults) :
          metric' = [metric EXCEPT !.ret =
              [op |-> "calculate_okr_attainment",
               direction |-> IF Len(key_results) = 1 THEN key_results[1].direction ELSE "",
               target |-> IF Len(key_results) = 1 THEN key_results[1].target ELSE 0,
               current |-> IF Len(key_results) = 1
                           THEN ValueOr(metric.kr_values, key_results[1].current) ELSE 0,
               n |-> Len(key_results),
               attainment |-> calculate_okr_attainment(metric.kr_values, key_results)]]
    /\ UNCHANGED <<plan, org>>
    /\ UNCHANGED notCalcVars

MetricsNext ==
    \/ UpdateKpi
    \/ UpdateKeyResult
    \/ CalculateKpiAttainment
    \/ CalculateOkrAttainment

(***************************************************************************)
(* CostEstimator (budget.py).  A cost is carried as an exact integer, in   *)
(* units of 1e-7 dollars: tokens/1000 is tokens units of 1e-3 and a model  *)
(* cost is a whole number of 1e-4 dollars.  The code computes              *)
(* (tokens / 1000) * model_cost * num_interactions left to right, so the   *)
(* estimate for n interactions is the one-interaction product times n.     *)
(***************************************************************************)
MaxInteractions == 5

RoleLevels == {"C_SUITE", "VP", "DIRECTOR", "MANAGER", "IC", "EXTERNAL"}

\* a role level or model name that is no key of the tables takes the .get default
EstimateLevels == RoleLevels \cup {"other"}
EstimateModels == {"gpt-4-turbo", "gpt-3.5-turbo", "gpt-3.5-turbo-instruct", "other"}
InteractionCounts == 0..MaxInteractions

\* MODEL_COSTS.get(model, 0.002), in units of 1e-4 dollars per 1k tokens
MODEL_COSTS(model) ==
    CASE model = "gpt-4-turbo" -> 100
      [] model = "gpt-3.5-turbo" -> 20
      [] model = "gpt-3.5-turbo-instruct" -> 15
      [] OTHER -> 20

\* TOKENS_BY_LEVEL.get(role_level, 500)
TOKENS_BY_LEVEL(role_level) ==
    CASE role_level = "C_SUITE" -> 2000
      [] role_level = "VP" -> 1500
      [] role_level = "DIRECTOR" -> 1000
      [] role_level = "MANAGER" -> 800
      [] role_level = "IC" -> 500
      [] role_level = "EXTERNAL" -> 600
      [] OTHER -> 500

\* a variant that charges the tokens of one interaction only
estimate_task_cost_flat(role_level, model, num_interactions) ==
    LET tokens == TOKENS_BY_LEVEL(role_level)
        model_cost == MODEL_COSTS(model)
    IN  IF num_interactions = 0 THEN 0 ELSE tokens * model_cost

estimate_task_cost(role_level, model, num_interactions) ==
    LET tokens == TOKENS_BY_LEVEL(role_level)
        model_cost == MODEL_COSTS(model)
    IN  tokens * model_cost * num_interactions

NoEstimate == [role_level |-> "none", model |-> "none", num_interactions |-> 0, cost |-> 0]

EstIdle == estimate = NoEstimate

CallEstimate ==
    /\ \E role_level \in EstimateLevels, model \in EstimateModels, n \in InteractionCounts :
          estimate' = [role_level |-> role_level, model |-> model, num_interactions |-> n,
                       cost |-> estimate_task_cost(role_level, model, n)]
    /\ UNCHANGED <<http, web, selection, forward>>
    /\ UNCHANGED notSvcVars

EstNext == CallEstimate

(***************************************************************************)
(* Contrib HTTP app (contrib/http/app.py) over the slim BoardRoom          *)
(* (core/boardroom.py) and the LocalTaskRunner (core/runner.py).           *)
(* Payloads have the documented shape: problem a string, policy absent or  *)
(* a BudgetPolicy value, budget_usd absent or a number.  The events         *)
(* published on the bus are kept per publisher, each in order: events is   *)
(* what the request handlers published, runs[j].events what background     *)
(* run j published.                                                        *)
(***************************************************************************)
MaxHttpCalls == 3

HttpProblems == {"", "Generic project", "Ship a Slack summarizer"}
HttpPolicies == {None, Some(CHEAP), Some(FAST)}

\* payload.get("policy") or os.getenv("BUDGET_POLICY", "balanced")
PolicyOf(policy) == IF policy = None THEN BALANCED ELSE policy[1]

\* DiscoveryEngine.generate_questions: the six seeded questions, else the four fallback ones
NumQuestions(problem) ==
    IF "slack" \in LowerWords(problem) /\ "summarizer" \in LowerWords(problem) THEN 6 ELSE 4

Repeat(e, n) == [i \in 1..n |-> e]

Response(op, status, job_id) == [op |-> op, status |-> status, job_id |-> job_id]

AppState ==
    [problem |-> None, prd |-> None, org |-> None, nPlans |-> 0, _job_counter |-> 0,
     resps |-> <<>>, runs |-> <<>>, events |-> <<>>, nReq |-> 0]

HttpIdle == http = AppState

\* POST /start_project
start_project(h, problem, policy) ==
    IF problem = ""
    THEN [h EXCEPT !.resps = Append(@, Response("start_project", 400, 0))]
    ELSE [h EXCEPT !.problem = Some(problem),
                   !.events = @ \o <<"PHASE_CHANGE">> \o Repeat("QUESTION", NumQuestions(problem)),
                   !.resps = Append(@, Response("start_project", 200, 0))]

\* POST /answer_discovery: PRDEngine.create gives the PRD a fresh id and the problem as title
answer_discovery(h, problem) ==
    LET title == IF problem = "" THEN "Project" ELSE problem
    IN  [h EXCEPT !.prd = Some([id |-> h.nReq + 1, title |-> title]),
                  !.events = Append(@, "PHASE_CHANGE"),
                  !.resps = Append(@, Response("answer_discovery", 200, 0))]

\* BoardRoom.plan_organization(prd, budget, policy), then next_job() and background.add_task(_run)
plan_and_queue(h, policy) ==
    LET prd == h.prd[1]
        problem == IF h.problem # None THEN h.problem[1] ELSE prd.title
        planned == OrgPlannerPlan(prd.id, PolicyOf(policy), problem)
        job_id == h._job_counter + 1
    IN  [h EXCEPT !.org = Some(planned),
                  !.nPlans = @ + 1,
                  !.events = Append(@, "PLAN_CREATED"),
                  !._job_counter = job_id,
                  !.runs = Append(@, [st |-> "queued", next |-> 0, n |-> 0, prd_id |-> planned.prd_id,
                                      org |-> None, events |-> <<>>, task_ids |-> <<>>]),
                  !.resps = Append(@, Response("execute", 200, job_id))]

\* a variant of POST /execute without the PRD check: the handler breaks on the missing PRD
http_execute_unchecked(h, policy) ==
    IF h.prd = None
    THEN [h EXCEPT !.resps = Append(@, Response("execute", 500, 0))]
    ELSE plan_and_queue(h, policy)

\* POST /execute
http_execute(h, policy) ==
    IF h.prd = None
    THEN [h EXCEPT !.resps = Append(@, Response("execute", 400, 0))]
    ELSE plan_and_queue(h, policy)

\* _run enters BoardRoom.execute: LocalTaskRunner.run(self._org) up to its first suspension
run_start(h, j) ==
    LET o == h.org[1]
        n == Len(o.tasklets)
    IN  [h EXCEPT !.runs[j] =
                      [@ EXCEPT !.st = "running", !.next = 1, !.n = n, !.org = Some(o),
                                !.events = <<"PHASE_CHANGE">>
                                             \o Repeat("HIRE", Len(o.c_suite) + Len(o.ics))
                                             \o <<"TASK_STARTED">>,
                                !.task_ids = Repeat(0, 1 + Len(o.c_suite) + Len(o.ics))
                                               \o <<o.tasklets[1].id>>]]

\* variant: the next tasklet is started before the current one is reported done
run_resume_overlapping(h, j) ==
    LET r == h.runs[j]
        t == r.org[1].tasklets
    IN  IF r.next < r.n
        THEN [h EXCEPT !.runs[j].next = @ + 1,
                       !.runs[j].events = @ \o <<"TASK_STARTED", "TASK_DONE">>,
                       !.runs[j].task_ids = @ \o <<t[r.next + 1].id, t[r.next].id>>]
        ELSE [h EXCEPT !.runs[j].st = "finished",
                       !.runs[j].events = @ \o <<"TASK_DONE", "FINISHED">>,
                       !.runs[j].task_ids = @ \o <<t[r.next].id, 0>>]

\* the run resumes after asyncio.sleep(0): the tasklet is done, the next one starts or the run ends
run_resume(h, j) ==
    LET r == h.runs[j]
        t == r.org[1].tasklets
    IN  IF r.next < r.n
        THEN [h EXCEPT !.runs[j].next = @ + 1,
                       !.runs[j].events = @ \o <<"TASK_DONE", "TASK_STARTED">>,
                       !.runs[j].task_ids = @ \o <<t[r.next].id, t[r.next + 1].id>>]
        ELSE [h EXCEPT !.runs[j].st = "finished",
                       !.runs[j].events = @ \o <<"TASK_DONE", "FINISHED">>,
                       !.runs[j].task_ids = @ \o <<t[r.next].id, 0>>]

\* a variant of _run without the try: the exception leaves the background task
run_raise_uncaught(h, j) == [h EXCEPT !.runs[j].st = "escaped"]

\* an Exception raised inside BoardRoom.execute reaches the except clause of _run
run_raise(h, j) ==
    [h EXCEPT !.runs[j].st = "caught", !.runs[j].events = Append(@, "ERROR"),
              !.runs[j].task_ids = Append(@, 0)]

HttpRequest(h) == [h EXCEPT !.nReq = @ + 1]

PostStartProject ==
    /\ http.nReq < MaxHttpCalls
    /\ \E problem \in HttpProblems, policy \in HttpPolicies :
          http' = start_project(HttpRequest(http), problem, policy)
    /\ UNCHANGED <<estimate, web, selection, forward>>
    /\ UNCHANGED notSvcVars

PostAnswerDiscovery ==
    /\ http.nReq < MaxHttpCalls
    /\ \E problem \in HttpProblems : http' = answer_discovery(HttpRequest(http), problem)
    /\ UNCHANGED <<estimate, web, selection, forward>>
    /\ UNCHANGED notSvcVars

PostExecute ==
    /\ http.nReq < MaxHttpCalls
    /\ \E policy \in HttpPolicies : http' = http_execute(HttpRequest(http), policy)
    /\ UNCHANGED <<estimate, web, selection, forward>>
    /\ UNCHANGED notSvcVars

BgStart ==
    /\ \E j \in DOMAIN http.runs :
          /\ http.runs[j].st = "queued"
          /\ http' = run_start(http, j)
    /\ UNCHANGED <<estimate, web, selection, forward>>
    /\ UNCHANGED notSvcVars

BgResume ==
    /\ \E j \in DOMAIN http.runs :
          /\ http.runs[j].st = "running"
          /\ http' = run_resume(http, j)
    /\ UNCHANGED <<estimate, web, selection, forward>>
    /\ UNCHANGED notSvcVars

BgRaise ==
    /\ \E j \in DOMAIN http.runs :
          /\ http.runs[j].st = "running"
          /\ http' = run_raise(http, j)
    /\ UNCHANGED <<estimate, web, selection, forward>>
    /\ UNCHANGED notSvcVars

HttpNext ==
    \/ PostStartProject
    \/ PostAnswerDiscovery
    \/ PostExecute
    \/ BgStart
    \/ BgResume
    \/ BgRaise

(***************************************************************************)
(* Web backend (web/backend): one session of deps.sessions and the routes  *)
(* of routes_startup.py and routes_run.py that write it.  The BoardRoom    *)
(* of a session runs in real mode: its execute() builds an Executor on the *)
(* session's OAG and BudgetManager and suspends once per task.             *)
(***************************************************************************)
MaxStreams == 2

\* the tasks of the planned OAG, each one suspension of Executor._execute_task
WebOagTasks == 2

NoWebResp == [op |-> "none", status |-> 0]

\* deps.sessions without the session
NoSession ==
    [created |-> FALSE, state |-> "none", boardroom |-> FALSE, prd |-> FALSE, oag |-> FALSE,
     execs |-> <<>>, charges |-> 0, resp |-> NoWebResp]

WebIdle == web = NoSession

WebResp(w, op, status) == [w EXCEPT !.resp = [op |-> op, status |-> status]]

\* POST /startup/begin: create_session(), update_session(..., state="discovery"), startup_phase
begin_startup(w, prompt_given) ==
    LET session == [w EXCEPT !.created = TRUE, !.state = "initialized"]
        stored == [session EXCEPT !.boardroom = TRUE, !.state = "discovery"]
    IN  WebResp(stored, "begin", IF prompt_given THEN 200 ELSE 500)

\* POST /startup/answers
submit_answers(w, answers_given) ==
    IF ~w.created THEN WebResp(w, "answers", 404)
    ELSE IF ~w.boardroom THEN WebResp(w, "answers", 400)
    ELSE IF ~answers_given THEN WebResp(w, "answers", 500)
    ELSE WebResp([w EXCEPT !.prd = TRUE, !.state = "planning"], "answers", 200)

\* POST /run/plan
web_plan_organization(w) ==
    IF ~w.created THEN WebResp(w, "plan", 404)
    ELSE IF ~w.boardroom \/ ~w.prd THEN WebResp(w, "plan", 400)
    ELSE WebResp([w EXCEPT !.oag = TRUE, !.state = "planned"], "plan", 200)

\* POST /run/execute
execute_plan(w) ==
    IF ~w.created THEN WebResp(w, "execute", 404)
    ELSE IF ~w.boardroom \/ ~w.oag THEN WebResp(w, "execute", 400)
    ELSE WebResp([w EXCEPT !.state = "executing"], "execute", 200)

\* GET /run/stream/{session_id}: execution_event_generator adds its callback and creates the
\* task of boardroom.execute(), which raises at once when no OAG was planned
execution_stream(w) ==
    IF ~w.created THEN WebResp(w, "stream", 404)
    ELSE IF ~w.oag
    THEN WebResp([w EXCEPT !.execs = Append(@, [st |-> "raised", left |-> 0])], "stream", 200)
    ELSE WebResp([w EXCEPT !.execs = Append(@, [st |-> "running", left |-> WebOagTasks])],
                 "stream", 200)

\* execution k resumes after the work of a task: record_spend on the session's BudgetManager
task_done(w, k) ==
    [w EXCEPT !.execs[k].left = @ - 1, !.charges = @ + 1]

\* the generator of execution k sees its task done: execution_complete, state="completed"
stream_complete(w, k) ==
    [w EXCEPT !.execs[k].st = "reported", !.state = "completed"]

WebBegin ==
    /\ ~web.created
    /\ \E prompt_given \in BOOLEAN : web' = begin_startup(web, prompt_given)
    /\ UNCHANGED <<estimate, http, selection, forward>>
    /\ UNCHANGED notSvcVars

WebAnswers ==
    /\ \E answers_given \in BOOLEAN : web' = submit_answers(web, answers_given)
    /\ UNCHANGED <<estimate, http, selection, forward>>
    /\ UNCHANGED notSvcVars

WebPlan ==
    /\ web' = web_plan_organization(web)
    /\ UNCHANGED <<estimate, http, selection, forward>>
    /\ UNCHANGED notSvcVars

WebExecute ==
    /\ web' = execute_plan(web)
    /\ UNCHANGED <<estimate, http, selection, forward>>
    /\ UNCHANGED notSvcVars

WebStream ==
    /\ Len(web.execs) < MaxStreams
    /\ web' = execution_stream(web)
    /\ UNCHANGED <<estimate, http, selection, forward>>
    /\ UNCHANGED notSvcVars

WebTaskDone ==
    /\ \E k \in DOMAIN web.execs :
          /\ web.execs[k].st = "running" /\ web.execs[k].left > 0
          /\ web' = task_done(web, k)
    /\ UNCHANGED <<estimate, http, selection, forward>>
    /\ UNCHANGED notSvcVars

WebExecutionReturns ==
    /\ \E k \in DOMAIN web.execs :
          /\ web.execs[k].st = "running" /\ web.execs[k].left = 0
          /\ web' = [web EXCEPT !.execs[k].st = "done"]
    /\ UNCHANGED <<estimate, http, selection, forward>>
    /\ UNCHANGED notSvcVars

WebStreamComplete ==
    /\ \E k \in DOMAIN web.execs :
          /\ web.execs[k].st = "done"
          /\ web' = stream_complete(web, k)
    /\ UNCHANGED <<estimate, http, selection, forward>>
    /\ UNCHANGED notSvcVars

WebNext ==
    \/ WebBegin
    \/ WebAnswers
    \/ WebPlan
    \/ WebExecute
    \/ WebStream
    \/ WebTaskDone
    \/ WebExecutionReturns
    \/ WebStreamComplete

(***************************************************************************)
(* ToolSelector.select_tools over TOOL_REGISTRY and ROLE_PREFERENCES       *)
(* (registry.py).  A role name or a dict key is the sequence of its words, *)
(* the words being what a blank or an underscore separates.                *)
(***************************************************************************)
MaxSelectCalls == 2

\* the ten records of ROLE_PREFERENCES, by their dict key
PreferenceKeys ==
    {<<"CEO">>, <<"CTO">>, <<"CFO">>, <<"VP", "ENG">>, <<"VP", "PRODUCT">>, <<"VP", "DATA">>,
     <<"DIRECTOR", "PM">>, <<"SWE">>, <<"DATA", "SCIENTIST">>, <<"QA", "ENGINEER">>}

RolePreferences(role, preferred_tools, required_tools, excluded_tools) ==
    [role |-> role, preferred_tools |-> preferred_tools, required_tools |-> required_tools,
     excluded_tools |-> excluded_tools]

ROLE_PREFERENCES(key) ==
    CASE key = <<"CEO">> ->
           RolePreferences(<<"CEO">>, <<"web_search", "writer">>, <<>>, <<"code_chunker">>)
      [] key = <<"CTO">> ->
           RolePreferences(<<"CTO">>, <<"code_reader", "qa_tool">>, <<>>, <<>>)
      [] key = <<"CFO">> ->
           RolePreferences(<<"CFO">>, <<"data_tool">>, <<>>, <<"code_reader", "code_chunker">>)
      [] key = <<"VP", "ENG">> ->
           RolePreferences(<<"VP", "Engineering">>, <<"code_reader", "code_chunker", "qa_tool">>,
                           <<"code_reader">>, <<>>)
      [] key = <<"VP", "PRODUCT">> ->
           RolePreferences(<<"VP", "Product">>, <<"web_search", "writer", "data_tool">>,
                           <<"writer">>, <<"code_chunker">>)
      [] key = <<"VP", "DATA">> ->
           RolePreferences(<<"VP", "Data">>, <<"data_tool", "code_reader">>, <<"data_tool">>, <<>>)
      [] key = <<"DIRECTOR", "PM">> ->
           RolePreferences(<<"Director", "PM">>, <<"writer", "web_search">>, <<>>,
                           <<"code_chunker">>)
      [] key = <<"SWE">> ->
           RolePreferences(<<"Software", "Engineer">>,
                           <<"code_reader", "code_chunker", "qa_tool">>, <<"code_reader">>, <<>>)
      [] key = <<"DATA", "SCIENTIST">> ->
           RolePreferences(<<"Data", "Scientist">>, <<"data_tool", "code_reader">>,
                           <<"data_tool">>, <<>>)
      [] key = <<"QA", "ENGINEER">> ->
           RolePreferences(<<"QA", "Engineer">>, <<"qa_tool", "code_reader">>, <<"qa_tool">>, <<>>)

\* TOOL_REGISTRY[tool_id].cost_tier
cost_tier(tool_id) == IF tool_id \in {"web_search", "data_tool", "qa_tool"} THEN 2 ELSE 1

\* str.upper() of one word
Upper(word) ==
    CASE word = "Engineering" -> "ENGINEERING"
      [] word = "Product" -> "PRODUCT"
      [] word = "Data" -> "DATA"
      [] word = "Director" -> "DIRECTOR"
      [] word = "Software" -> "SOFTWARE"
      [] word = "Engineer" -> "ENGINEER"
      [] word = "Scientist" -> "SCIENTIST"
      [] word = "Intern" -> "INTERN"
      [] word = "swe" -> "SWE"
      [] OTHER -> word

\* role.upper().replace(" ", "_")
PreferenceKey(role) == [i \in DOMAIN role |-> Upper(role[i])]

\* the ten catalogued role names, the two short keys, and a role outside the catalogue
CataloguedRoles == {ROLE_PREFERENCES(key).role : key \in PreferenceKeys}
SelectRoles == CataloguedRoles \cup {<<"VP", "ENG">>, <<"swe">>, <<"Intern">>}
SelectPolicies == {"conservative", "balanced", "aggressive"}
SelectBudgets == {5, 50}

Prefix(s, n) == [i \in 1..(IF n < Len(s) THEN n ELSE Len(s)) |-> s[i]]

\* remove duplicates while preserving order
RECURSIVE Unique(_)
Unique(s) ==
    IF s = <<>> THEN <<>>
    ELSE LET rest == Unique(Prefix(s, Len(s) - 1))
             last == s[Len(s)]
         IN  IF \E i \in DOMAIN rest : rest[i] = last THEN rest ELSE Append(rest, last)

DefaultTools == <<"web_search", "writer">>

\* ToolSelector.select_tools
select_tools(role, budget_policy, available_budget) ==
    LET key == PreferenceKey(role)
    IN  IF key \notin PreferenceKeys THEN DefaultTools
        ELSE LET prefs == ROLE_PREFERENCES(key)
                 balanced(tool_id) == available_budget > 10 \/ cost_tier(tool_id) <= 2
                 essential(tool_id) == cost_tier(tool_id) = 1
                 added == IF budget_policy = "aggressive" THEN prefs.preferred_tools
                          ELSE IF budget_policy = "balanced"
                          THEN SelectSeq(prefs.preferred_tools, balanced)
                          ELSE SelectSeq(Prefix(prefs.preferred_tools, 2), essential)
                 allowed(tool_id) == \A i \in DOMAIN prefs.excluded_tools :
                                         prefs.excluded_tools[i] # tool_id
             IN  Unique(SelectSeq(prefs.required_tools \o added, allowed))

NoSelection ==
    [role |-> <<>>, budget_policy |-> "", available_budget |-> 0, tools |-> <<>>, n |-> 0]

ToolsIdle == selection = NoSelection

\* tools = ToolSelector.select_tools(role, task_description, budget_policy, available_budget)
CallSelectTools ==
    /\ selection.n < MaxSelectCalls
    /\ \E role \in SelectRoles, budget_policy \in SelectPolicies, budget \in SelectBudgets :
          selection' = [role |-> role, budget_policy |-> budget_policy,
                        available_budget |-> budget,
                        tools |-> select_tools(role, budget_policy, budget),
                        n |-> selection.n + 1]
    /\ UNCHANGED <<estimate, http, web, forward>>
    /\ UNCHANGED notSvcVars

ToolsNext == CallSelectTools

(***************************************************************************)
(* BoardRoom.execute(on_event=cb) of the slim BoardRoom (core/boardroom.py)*)
(* on the asyncio event loop: the caller's task runs LocalTaskRunner.run,  *)
(* the forwarding task runs forward_events.  A task runs until it awaits   *)
(* something not ready; ready tasks are resumed in the order they became   *)
(* ready.  bus.publish never suspends.  Events are named by their position *)
(* in what the run published.                                              *)
(***************************************************************************)
MaxExecuteCalls == 3

NoRun == [st |-> "queued", next |-> 0, n |-> 0, prd_id |-> 0, org |-> None,
          events |-> <<>>, task_ids |-> <<>>]

\* runs holds the run of the current execute call; task is the forwarding task:
\* "none", "created" (not started yet), "waiting" (suspended in queue.get()),
\* "ready" (woken by a put) or "cancelled"
NoForward ==
    [org |-> None, runs |-> <<NoRun>>, st |-> "idle", task |-> "none", subscribed |-> FALSE,
     queue |-> <<>>, delivered |-> <<>>, n |-> 0]

ForwardIdle == forward = NoForward

\* bus.publish of the events the run added: put_nowait on the forwarder's queue if registered
PublishedTo(f, before) ==
    LET after == Len(f.runs[1].events)
        added == [i \in 1..(after - before) |-> before + i]
    IN  IF f.subscribed THEN [f EXCEPT !.queue = @ \o added] ELSE f

\* BoardRoom.plan_organization
forward_plan(f, policy, problem) == [f EXCEPT !.org = Some(OrgPlannerPlan(1, policy, problem))]

\* BoardRoom.execute(on_event) up to the first suspension of runner.run: the forwarding
\* task is created, and the run publishes up to its first asyncio.sleep(0)
forward_execute(f) ==
    IF f.org = None
    THEN [f EXCEPT !.st = "raised", !.n = @ + 1]
    ELSE LET f1 == [f EXCEPT !.runs = <<NoRun>>, !.st = "running", !.task = "created",
                             !.subscribed = FALSE, !.queue = <<>>, !.delivered = <<>>,
                             !.n = @ + 1]
         IN  PublishedTo(run_start(f1, 1), 0)

\* one turn of forward_events: its first turn registers the queue of bus.subscribe() and
\* suspends in queue.get(); a later turn hands every queued event to on_event, whose
\* exceptions are swallowed, and suspends again
forward_step(f) ==
    IF f.task = "created"
    THEN [f EXCEPT !.subscribed = TRUE, !.task = "waiting"]
    ELSE [f EXCEPT !.delivered = @ \o f.queue, !.queue = <<>>, !.task = "waiting"]

\* the caller's task resumes after asyncio.sleep(0): the run goes on to its next
\* suspension, or to its end, where execute returns through `finally: forward_task.cancel()`
forward_resume(f) ==
    LET f1 == PublishedTo(run_resume(f, 1), Len(f.runs[1].events))
    IN  IF f1.runs[1].st = "finished"
        THEN [f1 EXCEPT !.st = "returned", !.task = "cancelled"]
        ELSE [f1 EXCEPT !.task = IF f1.queue # <<>> THEN "ready" ELSE @]

FwdPlan ==
    /\ forward.st \in {"idle", "returned", "raised"}
    /\ forward.n < MaxExecuteCalls
    /\ \E policy \in CoreBudgetPolicy, problem \in OrgProblems :
          forward' = forward_plan(forward, policy, problem)
    /\ UNCHANGED <<estimate, http, web, selection>>
    /\ UNCHANGED notSvcVars

FwdExecute ==
    /\ forward.st \in {"idle", "returned", "raised"}
    /\ forward.n < MaxExecuteCalls
    /\ forward' = forward_execute(forward)
    /\ UNCHANGED <<estimate, http, web, selection>>
    /\ UNCHANGED notSvcVars

\* the event loop resumes the forwarding task: it became ready before the caller's task
FwdForwarderTurn ==
    /\ forward.st = "running"
    /\ forward.task \in {"created", "ready"}
    /\ forward' = forward_step(forward)
    /\ UNCHANGED <<estimate, http, web, selection>>
    /\ UNCHANGED notSvcVars

\* the event loop resumes the caller's task
FwdRunTurn ==
    /\ forward.st = "running"
    /\ forward.task = "waiting"
    /\ forward' = forward_resume(forward)
    /\ UNCHANGED <<estimate, http, web, selection>>
    /\ UNCHANGED notSvcVars

ForwardNext ==
    \/ FwdPlan
    \/ FwdExecute
    \/ FwdForwarderTurn
    \/ FwdRunTurn

(***************************************************************************)
(* Driver of the BudgetManager and the CFO                                 *)
(***************************************************************************)
BudgetIdle ==
    /\ bm = BudgetManagerInit(80, 100, 0)
    /\ ret = NoRet
    /\ nSpend = 0

BudgetInit ==
    /\ \E caps \in CapPairs : bm = BudgetManagerInit(caps[1], caps[2], 0)
    /\ ret = NoRet
    /\ nSpend = 0

CallRecordSpend ==
    /\ nSpend < MaxSpendCalls
    /\ \E amount \in Amounts :
          LET r == record_spend(bm, amount)
          IN /\ bm' = r.bm
             /\ ret' = [NoRet EXCEPT !.op = "record_spend", !.amount = amount, !.ok = r.ok]
    /\ nSpend' = nSpend + 1
    /\ UNCHANGED busVars
    /\ UNCHANGED execVars
    /\ UNCHANGED extVars

CallGetAlertLevel ==
    /\ ret' = [NoRet EXCEPT !.op = "get_alert_level", !.level = get_alert_level(bm)]
    /\ UNCHANGED <<bm, nSpend>>
    /\ UNCHANGED busVars
    /\ UNCHANGED execVars
    /\ UNCHANGED extVars

CallEvaluateSpendRequest ==
    /\ \E amount \in RequestAmounts, priority \in Priorities :
          ret' = [NoRet EXCEPT !.op = "evaluate_spend_request", !.amount = amount,
                               !.priority = priority,
                               !.ok = evaluate_spend_request(bm, amount, priority)]
    /\ UNCHANGED <<bm, nSpend>>
    /\ UNCHANGED busVars
    /\ UNCHANGED execVars
    /\ UNCHANGED extVars

CallGenerateBudgetPatch ==
    /\ ret' = [NoRet EXCEPT !.op = "generate_budget_patch", !.patch = generate_budget_patch(bm)]
    /\ UNCHANGED <<bm, nSpend>>
    /\ UNCHANGED busVars
    /\ UNCHANGED execVars
    /\ UNCHANGED extVars

vars == <<bm, ret, nSpend, subscribers, queue, closed, published, subState, received, subAt,
          dropped, afterClose, mode, useReal, edges, estCost, pc, taskStatus, results,
          task_order, remaining_tasks, waves, batch, co, callbacks, seen, extVars>>

BudgetNext ==
    \/ CallRecordSpend
    \/ CallGetAlertLevel
    \/ CallEvaluateSpendRequest
    \/ CallGenerateBudgetPatch

CalcIdle == PlanIdle /\ OrgIdle /\ MetricIdle

SvcIdle == EstIdle /\ HttpIdle /\ WebIdle /\ ToolsIdle /\ ForwardIdle

ExtIdle == RoomIdle /\ OagIdle /\ CacheIdle /\ AdapterIdle /\ CalcIdle /\ SvcIdle

InitBudget == BudgetInit /\ BusInit /\ ExecIdle /\ ExtIdle

SpecBudget == InitBudget /\ [][BudgetNext]_vars

BusNext ==
    \/ Publish
    \/ Close
    \/ \E s \in Subs : Subscribe(s)
    \/ \E s \in Subs : Get(s)
    \/ \E s \in Subs : Unsubscribe(s)

InitBus == BudgetIdle /\ BusInit /\ ExecIdle /\ ExtIdle

SpecBus == InitBus /\ [][BusNext]_vars

InitExec == ExecInit /\ BusInit /\ ExtIdle

SpecExec == InitExec /\ [][ExecNext]_vars

\* the same runs with callbacks registered, over tasks of alternating cost
InitExecEvents ==
    /\ ExecBegin
    /\ estCost = [t \in Tasks |-> IF t % 2 = 1 THEN 10 ELSE 20]
    /\ callbacks \in CallbackLists
    /\ BusInit
    /\ ExtIdle

SpecExecEvents == InitExecEvents /\ [][ExecNext]_vars

\* Executor.execute alone, sequential or parallel
InitExecutor == ExecInit /\ mode \in {"sequential", "parallel"} /\ BusInit /\ ExtIdle

ExecutorNext ==
    \/ Execute
    \/ SeqStep
    \/ ParStep
    \/ Resume
    \/ \E t \in Tasks : TaskStart(t)
    \/ \E t \in Tasks : TaskComplete(t)
    \/ \E t \in Tasks : TaskRaise(t)

\* the event loop resumes every coroutine that can run: a run of the executor that can take
\* a step takes one
SpecExecutorFair == InitExecutor /\ [][ExecutorNext]_vars /\ WF_vars(ExecutorNext)

InitRoom ==
    BudgetIdle /\ BusInit /\ ExecIdle /\ RoomInit /\ OagIdle /\ CacheIdle /\ AdapterIdle /\ CalcIdle /\ SvcIdle

SpecRoom == InitRoom /\ [][RoomNext]_vars

InitOag == BudgetIdle /\ BusInit /\ ExecIdle /\ ExtIdle

SpecOag == InitOag /\ [][OagNext]_vars

InitCache == BudgetIdle /\ BusInit /\ ExecIdle /\ ExtIdle

SpecCache == InitCache /\ [][CacheNext]_vars

InitCacheClear == BudgetIdle /\ BusInit /\ ExecIdle /\ ExtIdle

SpecCacheClear == InitCacheClear /\ [][CacheClearNext]_vars

InitAdapters ==
    BudgetIdle /\ BusInit /\ ExecIdle /\ RoomIdle /\ OagIdle /\ CacheIdle /\ AdapterInit /\ CalcIdle /\ SvcIdle

SpecAdapters == InitAdapters /\ [][AdapterNext]_vars

InitPlan == BudgetIdle /\ BusInit /\ ExecIdle /\ ExtIdle

SpecPlan == InitPlan /\ [][PlanNext]_vars

InitOrg == BudgetIdle /\ BusInit /\ ExecIdle /\ ExtIdle

SpecOrg == InitOrg /\ [][OrgNext]_vars

InitMetrics == BudgetIdle /\ BusInit /\ ExecIdle /\ ExtIdle

SpecMetrics == InitMetrics /\ [][MetricsNext]_vars

InitEst == BudgetIdle /\ BusInit /\ ExecIdle /\ ExtIdle

SpecEst == InitEst /\ [][EstNext]_vars

InitHttp == BudgetIdle /\ BusInit /\ ExecIdle /\ ExtIdle

SpecHttp == InitHttp /\ [][HttpNext]_vars

InitWeb == BudgetIdle /\ BusInit /\ ExecIdle /\ ExtIdle

SpecWeb == InitWeb /\ [][WebNext]_vars

InitTools == BudgetIdle /\ BusInit /\ ExecIdle /\ ExtIdle

SpecTools == InitTools /\ [][ToolsNext]_vars

InitForward == BudgetIdle /\ BusInit /\ ExecIdle /\ ExtIdle

SpecForward == InitForward /\ [][ForwardNext]_vars

(***************************************************************************)
(* Properties                                                              *)
(***************************************************************************)
Started(t) == taskStatus[t] # RUNNING /\ taskStatus'[t] = RUNNING

StartsOnlyAfterPredecessorsDone ==
    \A t \in Tasks : Started(t) =>
        (\A p \in predecessors(edges, t) : results[p] = DONE)

\* C1: in Executor.execute (sequential and parallel), a task's status becomes
\* RUNNING only at a moment when every predecessor in the execution graph has
\* a recorded result with status DONE.
C1_RunningOnlyAfterPredecessorsDone ==
    [][(mode \in {"sequential", "parallel"}) => StartsOnlyAfterPredecessorsDone]_vars

C1_Witness ==
    /\ mode \in {"sequential", "parallel"}
    /\ \E t \in Tasks : /\ taskStatus[t] = RUNNING
                        /\ predecessors(edges, t) # {}
                        /\ \E u \in Tasks : results[u] = FAILED

\* C2 (as claimed): in WaveExecutor.execute a task is started only once every
\* predecessor has resolved to DONE; a task with a failed, blocked or
\* unfinished predecessor is never started.
C2_WaveStartsOnlyAfterPredecessorsDone ==
    [][(mode \in {"wave_parallel", "wave_sequential"}) => StartsOnlyAfterPredecessorsDone]_vars

\* what one record_spend call does to the manager, by its return value
RecordSpendEffect ==
          IF bm.spent + ret'.amount > bm.hard_cap_usd
          THEN /\ ret'.ok = FALSE
               /\ bm'.spent = bm.spent
               /\ bm'.actual_cost_usd = bm.actual_cost_usd
               /\ bm'.spend_history = bm.spend_history
               /\ Len(bm'.alerts) = Len(bm.alerts) + 1
               /\ SubSeq(bm'.alerts, 1, Len(bm.alerts)) = bm.alerts
               /\ bm'.alerts[Len(bm'.alerts)].level = EMERGENCY
          ELSE /\ ret'.ok = TRUE
               /\ bm'.spent = bm.spent + ret'.amount
               /\ bm'.actual_cost_usd = bm.actual_cost_usd + ret'.amount
               /\ bm'.actual_cost_usd = bm'.spent
               /\ Len(bm'.spend_history) = Len(bm.spend_history) + 1
               /\ SubSeq(bm'.spend_history, 1, Len(bm.spend_history)) = bm.spend_history
               /\ bm'.spend_history[Len(bm'.spend_history)].amount = ret'.amount

C4_AlertLadder ==
    ret.op = "get_alert_level" =>
        LET s == bm.spent
            soft == bm.soft_cap_usd
            hard == bm.hard_cap_usd
            emergency == 10 * s >= 9 * hard
            exceeded == s >= soft
            critical == 10 * s >= 9 * soft
            warning == 10 * s >= 7 * soft
        IN /\ (ret.level = EMERGENCY) <=> emergency
           /\ (ret.level = EXCEEDED_SOFT) <=> (~emergency /\ exceeded)
           /\ (ret.level = CRITICAL) <=> (~emergency /\ ~exceeded /\ critical)
           /\ (ret.level = WARNING) <=> (~emergency /\ ~exceeded /\ ~critical /\ warning)
           /\ (ret.level = NORMAL) <=> (~emergency /\ ~exceeded /\ ~critical /\ ~warning)
           /\ (soft = 80 /\ hard = 100) =>
                 /\ s = 0 => ret.level = NORMAL
                 /\ s = 56 => ret.level = WARNING
                 /\ s = 72 => ret.level = CRITICAL
                 /\ s = 81 => ret.level = EXCEEDED_SOFT
                 /\ s = 90 => ret.level = EMERGENCY

C4_Witness ==
    /\ ret.op = "get_alert_level"
    /\ bm.soft_cap_usd = 80
    /\ bm.spent = 81
    /\ ret.level = EXCEEDED_SOFT

\* C5: evaluate_spend_request approves exactly the requests that are affordable
\* under the hard cap and whose priority the current alert level admits:
\* EMERGENCY only critical, EXCEEDED_SOFT critical or high, CRITICAL anything
\* but low, WARNING and NORMAL anything; an unaffordable request is denied.
PriorityAdmitted(level, priority) ==
    CASE level = EMERGENCY -> priority = "critical"
      [] level = EXCEEDED_SOFT -> priority \in {"critical", "high"}
      [] level = CRITICAL -> priority \in {"critical", "high", "medium"}
      [] OTHER -> TRUE

C5_SpendApproval ==
    ret.op = "evaluate_spend_request" =>
        /\ ret.ok <=> /\ bm.spent + ret.amount <= bm.hard_cap_usd
                      /\ PriorityAdmitted(get_alert_level(bm), ret.priority)
        /\ bm.spent + ret.amount > bm.hard_cap_usd => ~ret.ok

C5_Witness ==
    /\ ret.op = "evaluate_spend_request"
    /\ ret.priority = "critical"
    /\ get_alert_level(bm) = CRITICAL
    /\ bm.spent + ret.amount > bm.hard_cap_usd
    /\ ~ret.ok

\* C6: generate_budget_patch proposes policy "conservative" exactly at
\* EMERGENCY, EXCEEDED_SOFT and CRITICAL, a forecast of spent x 1.2 exactly at
\* WARNING, and nothing at NORMAL.
C6_BudgetPatch ==
    ret.op = "generate_budget_patch" =>
        LET level == get_alert_level(bm)
            isPolicy == /\ ret.patch.op = "replace"
                        /\ ret.patch.path = "/budget/policy"
                        /\ ret.patch.value = "conservative"
            isForecast == /\ ret.patch.op = "replace"
                          /\ ret.patch.path = "/budget/forecast_cost_usd"
                          /\ ret.patch.value10 = 12 * bm.spent
        IN /\ isPolicy <=> level \in {EMERGENCY, EXCEEDED_SOFT, CRITICAL}
           /\ isForecast <=> level = WARNING
           /\ (ret.patch = NoPatch) <=> level = NORMAL

C6_Witness ==
    /\ ret.op = "generate_budget_patch"
    /\ get_alert_level(bm) = WARNING
    /\ ret.patch.path = "/budget/forecast_cost_usd"

\* C7 (as claimed): in sequential mode a task with a predecessor that failed,
\* was budget-blocked or was skipped is never started and its TaskSpec status
\* ends the run as SKIPPED.
C7_SkippedTaskStatus ==
    (mode = "sequential" /\ pc = "returned") =>
        \A t \in Tasks :
            (\E p \in predecessors(edges, t) : results[p] \in {FAILED, SKIPPED}) =>
                taskStatus[t] = SKIPPED

\* the events a subscriber holds: handed to its loop body or still queued
Held(s) == received[s] \o queue[s]
Range(f) == {f[i] : i \in DOMAIN f}
StrictlyIncreasing(f) == \A i \in 1..(Len(f) - 1) : f[i] < f[i + 1]
\* the last event published before close()
LastOpen == published - afterClose

\* C8: publish never blocks; a full queue (capacity 100) makes publish drop the
\* event for that subscriber only; every registered subscriber holds every
\* event published while it was subscribed except the ones dropped on its own
\* full queue, whatever the other subscribers' queues look like.
C8_Backpressure ==
    /\ (published < MaxPublish /\ (closed => afterClose < MaxPublishAfterClose))
          => ENABLED Publish
    /\ \A s \in Subs :
          /\ Len(queue[s]) <= QueueMaxSize
          /\ subState[s] = "active" =>
                /\ Range(Held(s)) = ((subAt[s] + 1)..LastOpen) \ dropped[s]
                /\ Len(Held(s)) = Cardinality(Range(Held(s)))
          /\ \A e \in dropped[s] : e > subAt[s] + QueueMaxSize

C8_Witness ==
    /\ subState["s1"] = "active"
    /\ subState["s2"] = "active"
    /\ subscribers = <<"s1", "s2">>
    /\ dropped["s1"] # {}
    /\ dropped["s2"] = {}
    /\ received["s2"] # <<>>
    /\ Range(Held("s2")) = 1..published
    /\ published > QueueMaxSize

\* C9: what a subscriber receives is a subsequence of the published events in
\* publish order: no event twice, no reordering.
C9_DeliveryOrder ==
    \A s \in Subs :
        /\ StrictlyIncreasing(Held(s))
        /\ Range(Held(s)) \subseteq 1..published

C9_Witness ==
    \E s \in Subs :
        /\ Len(received[s]) = MaxGets
        /\ dropped[s] # {}
        /\ \E t \in Subs : t # s /\ Len(received[t]) > 0

\* C10 (as claimed): a consumer that begins iterating subscribe() together
\* with or after the producer's publishes still gets the events of the run:
\* once two events are published, an active consumer holds both.
C10_LateSubscriberGetsEvents ==
    \A s \in Subs :
        (subState[s] = "active" /\ ~closed /\ published >= 2 /\ dropped[s] = {})
            => {1, 2} \subseteq Range(Held(s))

\* what a round trip is claimed to keep of a BoardRoom
BudgetOf(b) ==
    IF b.budget_manager = None THEN None
    ELSE Some([spent |-> b.budget_manager[1].spent, alerts |-> b.budget_manager[1].alerts])
OagContentOf(b) == IF b.oag = None THEN None ELSE Some(model_dump(b.oag[1]))
ComponentsBound(b) ==
    b.oag # None =>
        /\ b.budget_manager # None
        /\ b.budget_manager[1].budget = b.oag[1].obj
        /\ b.cfo = Some(b.oag[1].obj)
        /\ b.metrics_engine = Some(b.oag[1].obj)
        /\ b.patch_manager = Some(b.oag[1].obj)

\* C11 (as claimed): after save_state(path) and load_state(path) on a fresh
\* BoardRoom, the fresh instance has the same project id, PRD content, OAG
\* content, budget spent total and alert list as the saved instance.
C11_StateFileRoundTrip ==
    loaded # None =>
        LET saved == loaded[1].of
            fresh == loaded[1].got
        IN /\ fresh.project_id = saved.project_id
           /\ fresh.prd = saved.prd
           /\ OagContentOf(fresh) = OagContentOf(saved)
           /\ BudgetOf(fresh) = BudgetOf(saved)

\* C12: BoardRoom.from_dict(b.to_dict()) has the same project id, phase state,
\* PRD, OAG content and budget (spent and alerts) as b, in whatever phase b
\* is, and when an OAG is present its budget manager, CFO, metrics engine and
\* patch manager are bound to the restored OAG.
C12_DictRoundTrip ==
    restored # None =>
        LET b == restored[1].of
            r == restored[1].got
        IN /\ r.project_id = b.project_id
           /\ r._state = b._state
           /\ r.prd = b.prd
           /\ OagContentOf(r) = OagContentOf(b)
           /\ BudgetOf(r) = BudgetOf(b)
           /\ (r.oag # None) <=> (b.oag # None)
           /\ ComponentsBound(r)

C12_Witness ==
    /\ restored # None
    /\ restored[1].of.budget_manager # None
    /\ restored[1].of.budget_manager[1].spent > 0
    /\ restored[1].of.budget_manager[1].alerts # <<>>
    /\ restored[1].got.budget_manager[1].alerts = restored[1].of.budget_manager[1].alerts
    /\ restored[1].got.oag[1].obj # restored[1].of.oag[1].obj

PhaseOps == {"startup_phase", "process_discovery", "plan_organization", "execute"}

RejectedCallEffect ==
    /\ (/\ rcall'.op = "startup_phase"
        /\ \/ rcall'.problem = ""
           \/ rcall'.budget_usd <= 0
           \/ Lower(rcall'.policy) \notin BudgetPolicy)
          => rcall'.raised = "InvalidInput"
    /\ (rcall'.op = "process_discovery" /\ rcall'.answers = <<>>)
          => rcall'.raised = "InvalidInput"
    /\ (rcall'.op = "execute" /\ rcall'.oag = None /\ br.oag = None)
          => rcall'.raised = "InvalidInput"
    /\ rcall'.raised = "InvalidInput" => br' = br

\* C13: startup_phase with an empty problem, a budget <= 0 or an unknown policy
\* string, process_discovery with empty answers and execute with no planned
\* OAG each raise InvalidInput from that call, and a call that raises
\* InvalidInput emits no event and leaves the BoardRoom's phase state, PRD,
\* OAG and budget manager as they were.
C13_PhaseEntryValidation ==
    [][(rcall'.op \in PhaseOps) => RejectedCallEffect]_vars

C13_Witness ==
    /\ rcall.op = "startup_phase"
    /\ rcall.raised = "InvalidInput"
    /\ rcall.problem # ""
    /\ rcall.budget_usd > 0
    /\ rcall.policy = "invalid"
    /\ br._state.problem # None
    /\ br.events # <<>>

\* C14: in mock mode, for problem 'Test project' and budget 100, startup_phase
\* returns a non-empty question list, process_discovery a PRD with at least
\* one objective, plan_organization an OAG with at least one task, and execute
\* an ExecutionResult with total_cost 0.1 (10 cents) whose metrics hold a
\* tasks_completed entry.
C14_MockPipeline ==
    (mockEnv /\ rcall.raised = "none" /\ br._state.problem = Some("Test project")
        /\ br._state.budget_usd = Some(10000)) =>
        /\ rcall.op = "startup_phase" => rcall.questions > 0
        /\ rcall.op = "process_discovery" => (rcall.prd # None /\ rcall.prd[1].objectives >= 1)
        /\ rcall.op = "plan_organization" => (rcall.oag # None /\ Len(rcall.oag[1].tasks) >= 1)
        /\ rcall.op = "execute" => (rcall.total_cost = 10 /\ rcall.tasks_completed # None)

C14_Witness ==
    /\ mockEnv
    /\ rcall.op = "execute"
    /\ rcall.raised = "none"
    /\ rcall.oag = None
    /\ br._state.problem = Some("Test project")
    /\ br._state.budget_usd = Some(10000)
    /\ Len(br.events) = 4
    /\ br.events[1].phase = "startup"
    /\ br.events[2].phase = "discovery"
    /\ br.events[3].phase = "planning"
    /\ br.events[4].phase = "execution"
    /\ rcall.total_cost = 10

\* C15: constructing an OAG whose nodes map has a key different from the
\* contained node's id fails and a correctly keyed map is accepted; in every
\* OAG reached by construction and add_node calls each key of nodes is the id
\* of the node stored under it, and get_agents, get_tasks and get_node return
\* exactly the stored nodes.
C15_NodeIdInvariant ==
    /\ oagRet.op = "OAG" =>
          /\ (oagRet.raised = "ValidationError")
                <=> (\E item \in oagRet.nodes : item[1] # item[2].id)
          /\ oagRet.raised = "none" => oagObj = Some(oagRet.nodes)
          /\ oagRet.raised # "none" => oagObj = None
    /\ oagObj # None =>
          /\ IsDict(oagObj[1])
          /\ \A item \in oagObj[1] : item[1] = item[2].id
          /\ oagRet.op = "add_node" => <<oagRet.node[1].id, oagRet.node[1]>> \in oagObj[1]
          /\ oagRet.op = "get_agents" =>
                \A item \in NodeIds \X NodeSpecs :
                    item \in oagRet.items <=> (item \in oagObj[1] /\ item[2].node_type = "agent")
          /\ oagRet.op = "get_tasks" =>
                \A item \in NodeIds \X NodeSpecs :
                    item \in oagRet.items <=> (item \in oagObj[1] /\ item[2].node_type = "task")
          /\ oagRet.op = "get_node" =>
                /\ oagRet.node # None => <<oagRet.node_id, oagRet.node[1]>> \in oagObj[1]
                /\ oagRet.node = None => \A item \in oagObj[1] : item[2].id # oagRet.node_id

C15_Witness ==
    /\ oagObj # None
    /\ oagRet.op = "get_node"
    /\ oagRet.node # None
    /\ oagRet.node[1].text = "second"
    /\ <<oagRet.node_id, [oagRet.node[1] EXCEPT !.text = "first"]>> \notin oagObj[1]
    /\ Cardinality(oagObj[1]) = 3

\* C16: a value stored by set under category agent_response is returned by get
\* with the same request data immediately after the set, and once more than
\* 600 seconds have elapsed since the store get reports a miss and removes
\* the entry.
C16_CacheTTL ==
    /\ (cacheRet.op = "set" /\ cacheRet.category = "agent_response"
            /\ cacheRet.value # Some("unpicklable") /\ now = cacheRet.at) =>
          \A data \in RequestData :
              {data[i] : i \in DOMAIN data} = {cacheRet.data[i] : i \in DOMAIN cacheRet.data}
                  => /\ get(cacheFiles, now, "agent_response", data).value = cacheRet.value
                     /\ get(cacheFiles, now, "agent_response", data).files = cacheFiles
    /\ (cacheRet.op = "get" /\ cacheRet.category = "agent_response"
            /\ cacheRet.before # None /\ ~cacheRet.before[1].corrupt) =>
          IF cacheRet.at - cacheRet.before[1].timestamp > 600
          THEN /\ cacheRet.value = None
               /\ FileAt(cacheFiles, _get_cache_key("agent_response", cacheRet.data)) = None
          ELSE cacheRet.value = Some(cacheRet.before[1].value)

C16_Witness ==
    /\ cacheRet.op = "get"
    /\ cacheRet.category = "agent_response"
    /\ cacheRet.data = <<"role", "prompt">>
    /\ cacheRet.before # None
    /\ ~cacheRet.before[1].corrupt
    /\ cacheRet.at - cacheRet.before[1].timestamp = 800
    /\ cacheRet.value = None
    /\ \E item \in cacheFiles :
          /\ item[1][1] = "agent_response"
          /\ ~item[2].corrupt
          /\ now - item[2].timestamp = 600

\* C17 (as claimed): whenever DRY_RUN is enabled at the time of the call,
\* run() on the issue-tracker adapter and on the document-store adapter
\* returns a payload with dry_run: true and makes no network call, for every
\* supported action, with or without credentials.
C17_DryRunNoNetwork ==
    (adRet.op = "run" /\ adRet.flag /\ adRet.action \in Capabilities(adRet.name)) =>
        /\ adRet.dry_run
        /\ ~adRet.network

\* the band of a budget under balanced staffing: below $50, below $200, above
StaffingBand(budget) == IF budget < 5000 THEN 1 ELSE IF budget < 20000 THEN 2 ELSE 3

\* C18 (as claimed): for a fixed PRD under balanced staffing, the number of
\* agents in the OAG Planner.plan returns strictly increases as the budget
\* moves through the bands: count(budget < 50) < count(50 <= budget < 200)
\* < count(budget >= 200).
C18_StaffingStrictlyIncreasing ==
    \A i \in 1..Len(plan), j \in 1..Len(plan) :
        (/\ plan[i].budget_policy = BALANCED
         /\ plan[j].budget_policy = BALANCED
         /\ plan[i].prd = plan[j].prd
         /\ StaffingBand(plan[i].budget_usd) < StaffingBand(plan[j].budget_usd))
            => Cardinality(plan[i].oag.agents) < Cardinality(plan[j].oag.agents)

\* C19: for the same problem text, OrgPlanner.plan gives an IC count under
\* CHEAP <= the IC count under BALANCED <= the IC count under FAST, and the IC
\* count under FAST never exceeds 6.
C19_OrgPlannerTeamSizes ==
    /\ \A i \in 1..Len(org), j \in 1..Len(org) :
          org[i].problem = org[j].problem =>
              /\ (org[i].policy = CHEAP /\ org[j].policy = BALANCED)
                    => Len(org[i].graph.ics) <= Len(org[j].graph.ics)
              /\ (org[i].policy = BALANCED /\ org[j].policy = FAST)
                    => Len(org[i].graph.ics) <= Len(org[j].graph.ics)
    /\ \A i \in 1..Len(org) : org[i].policy = FAST => Len(org[i].graph.ics) <= 6

C19_Witness ==
    /\ Len(org) = 3
    /\ \A i \in 1..3 : org[i].problem = "Generic project"
    /\ org[1].policy = BALANCED /\ Len(org[1].graph.ics) = 3
    /\ org[2].policy = CHEAP /\ Len(org[2].graph.ics) = 2
    /\ org[3].policy = FAST /\ Len(org[3].graph.ics) = 4

\* the attainment just returned is that of one key result or KPI
OneMetric == metric.ret.op # "none" /\ metric.ret.n = 1

\* the direction formulas, on the value the engine used as current
DirectionFormulas ==
    LET r == metric.ret
    IN /\ (r.direction = GTE /\ r.target > 0 /\ r.current <= r.target)
             => r.attainment.num * r.target = r.current * 100 * r.attainment.den
       /\ (r.direction = GTE /\ r.target = 100 /\ r.current = 50)
             => FracEq(r.attainment, Frac(50, 1))
       /\ (r.direction = LTE /\ r.current <= r.target)
             => FracEq(r.attainment, Frac(100, 1))
       /\ (r.direction = EQ /\ r.current = r.target)
             => FracEq(r.attainment, Frac(100, 1))
       /\ (r.direction = EQ /\ r.current # r.target)
             => FracEq(r.attainment, Frac(0, 1))
       /\ (r.direction = GTE /\ r.target > 0 /\ r.current > r.target)
             => FracEq(r.attainment, Frac(100, 1))

\* C20 (as claimed): the attainment of a key result or KPI is always within
\* 0..100 and follows the direction formulas, clamped to at most 100.
C20_AttainmentWithin0To100 ==
    OneMetric =>
        /\ FracLE(Frac(0, 1), metric.ret.attainment)
        /\ FracLE(metric.ret.attainment, Frac(100, 1))
        /\ DirectionFormulas

\* C20 (amended): the attainment of a key result or KPI is always at most 100,
\* is within 0..100 whenever current and target are both non-negative, and
\* follows the direction formulas: GTE gives current/target x 100 for a
\* positive target (50 for current 50, target 100), LTE gives 100 when current
\* is at or under target, EQ gives 100 when current equals target and 0
\* otherwise, and the result is 100 however far current exceeds target.
C20_AttainmentAtMost100 ==
    /\ metric.ret.op # "none" => FracLE(metric.ret.attainment, Frac(100, 1))
    /\ OneMetric =>
          /\ (metric.ret.current >= 0 /\ metric.ret.target >= 0)
                => FracLE(Frac(0, 1), metric.ret.attainment)
          /\ DirectionFormulas

C20_Witness ==
    /\ metric.ret.op = "calculate_kpi_attainment"
    /\ metric.ret.direction = GTE
    /\ metric.ret.target = 50
    /\ metric.ret.current = 300
    /\ metric.kpi_values = None
    /\ FracEq(metric.ret.attainment, Frac(100, 1))

(***************************************************************************)
(* C21: cost scaling of CostEstimator.estimate_task_cost                   *)
(***************************************************************************)
EstimateIsLinear ==
    estimate.cost = estimate.num_interactions
                      * estimate_task_cost(estimate.role_level, estimate.model, 1)

IsCSuiteOnGpt4 == estimate.role_level = "C_SUITE" /\ estimate.model = "gpt-4-turbo"

ExceedsICOnGpt35 ==
    estimate.cost > estimate_task_cost("IC", "gpt-3.5-turbo", estimate.num_interactions)

\* C21 as stated: every estimate is num_interactions times the one-interaction estimate of
\* its role level and model, and a C_SUITE estimate on gpt-4-turbo is strictly greater than
\* the IC estimate on gpt-3.5-turbo for the same interaction count, whatever the count.
C21_CostScalingAnyCount ==
    estimate # NoEstimate =>
        /\ EstimateIsLinear
        /\ IsCSuiteOnGpt4 => ExceedsICOnGpt35

\* C21, amended: every estimate is num_interactions times the one-interaction estimate of
\* its role level and model, and a C_SUITE estimate on gpt-4-turbo is strictly greater than
\* the IC estimate on gpt-3.5-turbo for the same interaction count of at least one.
C21_CostScaling ==
    estimate # NoEstimate =>
        /\ EstimateIsLinear
        /\ (IsCSuiteOnGpt4 /\ estimate.num_interactions >= 1) => ExceedsICOnGpt35

C21_Witness ==
    /\ IsCSuiteOnGpt4
    /\ estimate.num_interactions = 5
    /\ estimate.cost = 5 * estimate_task_cost("C_SUITE", "gpt-4-turbo", 1)
    /\ ExceedsICOnGpt35

(***************************************************************************)
(* C22: POST /execute of the contrib HTTP app                              *)
(***************************************************************************)
LastResp(h) == h.resps[Len(h.resps)]

IsExecuteRequest == http'.nReq = http.nReq + 1 /\ LastResp(http').op = "execute"

\* nothing of the planning, the jobs, the background runs and the bus changes
NothingStarted ==
    /\ http'.org = http.org
    /\ http'.nPlans = http.nPlans
    /\ http'._job_counter = http._job_counter
    /\ http'.runs = http.runs
    /\ http'.events = http.events

JobQueued ==
    /\ LastResp(http').status = 200
    /\ LastResp(http').job_id = http._job_counter + 1
    /\ Len(http'.runs) = Len(http.runs) + 1
    /\ http'.runs[Len(http'.runs)].st = "queued"

ExecuteEffect ==
    IsExecuteRequest =>
        IF http.prd = None THEN LastResp(http').status = 400 /\ NothingStarted ELSE JobQueued

ErrorEventsOf(j) == {i \in DOMAIN http.runs[j].events : http.runs[j].events[i] = "ERROR"}

\* a run never lets an exception out, a caught failure is one ERROR event of that run on
\* the bus, and the response already sent stays what it was
FailureContained ==
    /\ \A j \in DOMAIN http.runs :
          /\ http.runs[j].st # "escaped"
          /\ http.runs[j].st = "caught" <=> ErrorEventsOf(j) # {}
          /\ Cardinality(ErrorEventsOf(j)) <= 1
    /\ \A i \in DOMAIN http.resps : http.resps[i].status \in {200, 400}
    /\ \A i \in DOMAIN http.events : http.events[i] # "ERROR"

BackgroundKeepsResponse ==
    http'.nReq = http.nReq => http'.resps = http.resps

LifecycleRank(state) ==
    CASE state = "initialized" -> 1
      [] state = "discovery" -> 2
      [] state = "planning" -> 3
      [] state = "executing" -> 4
      [] state = "completed" -> 5
      [] OTHER -> 0

StateListed == web.created => LifecycleRank(web.state) > 0

StateForward ==
    (web.created /\ LifecycleRank(web.state) > 0 /\ LifecycleRank(web'.state) > 0)
        => LifecycleRank(web'.state) >= LifecycleRank(web.state)

\* C23: the state of a session is always one of initialized, discovery, planning,
\* executing, completed, and no request moves it to an earlier one of that order.
C23_SessionLifecycle == []StateListed /\ [][StateForward]_vars

(***************************************************************************)
(* C24: single writer of a session's OAG and BudgetManager                 *)
(***************************************************************************)
RunningExecutions == {k \in DOMAIN web.execs : web.execs[k].st = "running"}

\* C24: at most one execution of a session's OAG is running at any time, whatever requests
\* were made.
C24_SingleWriter == Cardinality(RunningExecutions) <= 1

(***************************************************************************)
(* C25: the task status state machine within one Executor run              *)
(***************************************************************************)
ExecutorRun == mode \in {"sequential", "parallel"}

AllowedStatusMoves ==
    {<<PLANNED, RUNNING>>, <<RUNNING, DONE>>, <<RUNNING, FAILED>>, <<PLANNED, SKIPPED>>}

StatusMovesAllowed ==
    ExecutorRun =>
        \A t \in Tasks :
            taskStatus'[t] # taskStatus[t] => <<taskStatus[t], taskStatus'[t]>> \in AllowedStatusMoves

\* C25: in a run of the Executor a TaskSpec.status changes only planned -> running,
\* running -> done, running -> failed or planned -> skipped; done, failed and skipped are
\* never left, so no task is set running a second time.
C25_TaskStatusMachine == [][StatusMovesAllowed]_vars

\* a run has returned with one task done after running and another failed after running
C25_Witness ==
    /\ ExecutorRun
    /\ pc = "returned"
    /\ \E t, u \in Tasks : taskStatus[t] = DONE /\ taskStatus[u] = FAILED

(***************************************************************************)
(* C26: the cost of done tasks against the BudgetManager                   *)
(***************************************************************************)
\* TaskSpec.cost.actual_cost_usd of a done task: the cost _execute_task computed for it
actual_cost_usd(t) == TaskCost(estCost[t], useReal)

RECURSIVE SumActualCost(_)
SumActualCost(ts) ==
    IF ts = {} THEN 0
    ELSE LET t == CHOOSE x \in ts : TRUE
         IN actual_cost_usd(t) + SumActualCost(ts \ {t})

DoneTasks == {t \in Tasks : taskStatus[t] = DONE}

\* what the manager had spent when the run began
SpentAtEntry ==
    IF bm.spend_history = <<>> THEN bm.spent
    ELSE bm.spend_history[1].total_spent - bm.spend_history[1].amount

\* C26: after a run of the Executor that began with nothing spent, the actual costs of the
\* done tasks add up to BudgetManager.spent and to no more than the hard cap.
C26_DoneCostsAreRecordedSpend ==
    (ExecutorRun /\ pc = "returned" /\ SpentAtEntry = 0) =>
        /\ SumActualCost(DoneTasks) = bm.spent
        /\ SumActualCost(DoneTasks) <= bm.hard_cap_usd

(***************************************************************************)
(* C27: oag.budget.actual_cost_usd against the bound manager's spent       *)
(***************************************************************************)
\* the OAG a BoardRoom holds reports as actual cost what its BudgetManager has spent
ActualCostIsSpent(b) ==
    (b.oag # None /\ b.budget_manager # None) =>
        /\ b.oag[1].actual_cost_usd = b.budget_manager[1].spent
        /\ b.budget_manager[1].actual_cost_usd = b.budget_manager[1].spent

\* C27: oag.budget.actual_cost_usd equals the spent total of the BudgetManager bound to the
\* OAG: in the BoardRoom after plan_organization and execute, in the one from_dict builds
\* and in the one load_state fills.
C27_ActualCostTracksSpent ==
    /\ ActualCostIsSpent(br)
    /\ restored # None => ActualCostIsSpent(restored[1].got)
    /\ loaded # None => ActualCostIsSpent(loaded[1].got)

(***************************************************************************)
(* C28: the budget gate of the Executor                                    *)
(***************************************************************************)
\* this step is _execute_task of t entered while can_proceed() is false
BlockedDispatch(t) ==
    ExecutorRun /\ co[t] = "pending" /\ co'[t] # "pending" /\ ~can_proceed(bm)

BlockedTaskUntouched ==
    \A t \in Tasks :
        BlockedDispatch(t) => taskStatus'[t] # RUNNING /\ co'[t] = "none" /\ bm' = bm

BlockedTaskFailed ==
    \A t \in Tasks :
        BlockedDispatch(t) => taskStatus'[t] = FAILED /\ results'[t] = FAILED

ClosedAtEntry ==
    (ExecutorRun /\ pc = "entry" /\ ~can_proceed(bm) /\ pc' # pc) =>
        /\ pc' = "returned"
        /\ co' = NoCo /\ taskStatus' = taskStatus /\ results' = results /\ bm' = bm

\* C28: a task dispatched while can_proceed() is false is not set running and spends
\* nothing, its status and its recorded result become failed, and an execute() entered
\* with the gate closed returns without attempting a task.
C28_BudgetGate == [][BlockedTaskUntouched /\ BlockedTaskFailed /\ ClosedAtEntry]_vars

(***************************************************************************)
(* C29: a failed task does not abort the run                               *)
(***************************************************************************)
RECURSIVE AncestorsWithin(_, _)
AncestorsWithin(ts, n) ==
    IF n = 0 THEN ts
    ELSE AncestorsWithin(ts \cup UNION {predecessors(edges, u) : u \in ts}, n - 1)

\* every task from which a path of execution_graph leads to t
Ancestors(t) == AncestorsWithin(predecessors(edges, t), NumTasks)

AllAncestorsDone(t) == \A a \in Ancestors(t) : results[a] = DONE

\* _execute_task was entered for t: it is under way or has recorded its result
Dispatched(t) == co[t] # "none" \/ results[t] \in {DONE, FAILED}

SomeTaskFailed == ExecutorRun /\ \E t \in Tasks : results[t] = FAILED

ReturnedWithAllReachableDispatched ==
    /\ pc = "returned"
    /\ \A t \in Tasks : AllAncestorsDone(t) => Dispatched(t)

\* C29: once a task of an Executor run has failed, by an exception or by the budget gate,
\* execute() still returns normally, in sequential and in parallel mode, and by then
\* every task all of whose ancestors ended done has been dispatched.
C29_FailureContained == SomeTaskFailed ~> ReturnedWithAllReachableDispatched

\* a run returned in which one task failed and a task depending on a done task still ran
C29_Witness ==
    /\ ExecutorRun
    /\ pc = "returned"
    /\ \E t \in Tasks : results[t] = FAILED /\ taskStatus[t] = FAILED
    /\ \E u, v \in Tasks : <<u, v>> \in edges /\ results[u] = DONE /\ results[v] = DONE

(***************************************************************************)
(* C30: termination of the parallel mode                                   *)
(***************************************************************************)
ParallelRun == mode = "parallel"

OnCycle(t) == t \in Ancestors(t)

\* t lies on a cycle, or below a cycle, or below a task that failed
Unreachable(t) ==
    \/ OnCycle(t)
    \/ \E a \in Ancestors(t) : OnCycle(a) \/ results[a] = FAILED

NeverExecuted(t) == co[t] = "none" /\ results[t] = "none" /\ taskStatus[t] = PLANNED

ReadyTasks == {t \in remaining_tasks : _dependencies_satisfied(edges, results, t)}

ParallelLoopSafe ==
    ParallelRun =>
        /\ \A t \in Tasks : Unreachable(t) => NeverExecuted(t)
        /\ (pc = "returned" /\ SpentAtEntry < bm.hard_cap_usd)
              => (remaining_tasks = {} \/ ReadyTasks = {})
        /\ pc # "raised"

\* a task is handed to _execute_task only if it never was before
DispatchedOnce ==
    ParallelRun =>
        \A t \in Tasks : (co[t] = "none" /\ co'[t] = "pending") => NeverExecuted(t)

\* C30: on every task graph a parallel execute() returns; it returns when no task remains
\* or no remaining task is ready; a task on a cycle, below a cycle or below a failed task
\* is never executed; and no task is executed twice.
C30_ParallelTerminates ==
    /\ (ParallelRun /\ pc = "entry") ~> (pc = "returned")
    /\ []ParallelLoopSafe
    /\ [][DispatchedOnce]_vars

\* a parallel run returned with tasks left: one on a cycle and one below a failed task
C30_Witness ==
    /\ ParallelRun
    /\ pc = "returned"
    /\ \E t \in remaining_tasks : OnCycle(t)
    /\ \E u \in Tasks, v \in remaining_tasks :
          <<u, v>> \in edges /\ u # v /\ results[u] = FAILED /\ NeverExecuted(v)

(***************************************************************************)
(* C31: the waves of WaveExecutor                                          *)
(***************************************************************************)
WaveCalculated == pc = "entry" /\ pc' = "wave_loop"

WaveOf(ws, t) == {i \in 1..Len(ws) : t \in ws[i]}

\* every task is in exactly one wave, and the loop made progress in every pass
WavesPartition(ws) ==
    /\ Len(ws) <= NumTasks
    /\ \A i \in 1..Len(ws) : ws[i] # {} /\ ws[i] \subseteq Tasks
    /\ \A t \in Tasks : Cardinality(WaveOf(ws, t)) = 1

PredecessorsEarlier(ws, t) ==
    \A p \in predecessors(edges, t) :
        \A i \in WaveOf(ws, p) : \A j \in WaveOf(ws, t) : i < j

\* the tasks on a cycle or below one: no peeling pass can ever free them
CycleResidue == {t \in Tasks : OnCycle(t) \/ \E a \in Ancestors(t) : OnCycle(a)}

WavesOrdered(ws) ==
    IF CycleResidue = {}
    THEN \A t \in Tasks : PredecessorsEarlier(ws, t)
    ELSE /\ ws[Len(ws)] = CycleResidue
         /\ \A t \in Tasks \ CycleResidue : PredecessorsEarlier(ws, t)

WavesCorrect == WaveCalculated => (WavesPartition(waves') /\ WavesOrdered(waves'))

\* C31: _calculate_waves returns on every graph, with at most one wave per task, each task
\* in exactly one wave; on an acyclic graph every predecessor of a task is in a strictly
\* earlier wave; on a graph with a cycle the tasks on or below a cycle form the one last
\* wave and the waves before it respect the order.
C31_WavesPartitionTasks == [][WavesCorrect]_vars

\* waves computed for a graph with a cycle: one peeled wave, then the residue
C31_Witness ==
    /\ pc = "wave_loop"
    /\ waves = _calculate_waves(edges, Tasks)
    /\ Len(waves) >= 2
    /\ CycleResidue # {}
    /\ waves[Len(waves)] = CycleResidue

\* waves computed for an acyclic chain: as many waves as tasks on the chain
C31_WitnessChain ==
    /\ pc = "wave_loop"
    /\ CycleResidue = {}
    /\ Len(waves) = 3
    /\ \E a, b, c \in Tasks : <<a, b>> \in edges /\ <<b, c>> \in edges

(***************************************************************************)
(* C32: the task events of a run, as a registered callback receives them   *)
(***************************************************************************)
IsTaskEvent(e) == e \in {TASK_START, TASK_COMPLETE, TASK_FAILED}

TaskEvents(t) == SelectSeq(seen[t], IsTaskEvent)

TaskEventsWellFormed(t) ==
    LET ev == TaskEvents(t)
    IN /\ ev \in {<<>>, <<TASK_START>>, <<TASK_START, TASK_COMPLETE>>, <<TASK_START, TASK_FAILED>>}
       \* a start without its end only while the task's coroutine is still in its work
       /\ (ev = <<TASK_START>>) <=> (co[t] = "awaiting")
       \* the events tell the outcome
       /\ (ev = <<TASK_START, TASK_COMPLETE>>) <=> (results[t] = DONE)
       /\ (ev = <<TASK_START, TASK_FAILED>>) => (results[t] = FAILED /\ taskStatus[t] = FAILED)

\* C32: with a recording callback registered, alone or before or after a callback that
\* raises, the task events received for a task are a TASK_START followed by one
\* TASK_COMPLETE or one TASK_FAILED; the end event is missing only while the task is
\* running; no end event comes without the start; and the end event matches the
\* recorded outcome of the task.
C32_TaskEventOrder == Recorder \in Range(callbacks) => \A t \in Tasks : TaskEventsWellFormed(t)

\* a returned run with a raising callback registered first: one task failed, one completed
C32_Witness ==
    /\ callbacks = <<Raiser, Recorder>>
    /\ pc = "returned"
    /\ \E t, u \in Tasks :
          /\ TaskEvents(t) = <<TASK_START, TASK_FAILED>>
          /\ TaskEvents(u) = <<TASK_START, TASK_COMPLETE>>
          /\ BUDGET_WARNING \in Range(seen[u])

(***************************************************************************)
(* C33: the events of LocalTaskRunner.run                                  *)
(***************************************************************************)
RunnerEvent(type, task_id) == [type |-> type, task_id |-> task_id]

\* what run j published itself: its events with their task_id, without the ERROR of _run
RunnerEvents(j) ==
    LET r == http.runs[j]
        n == IF r.st = "caught" THEN Len(r.events) - 1 ELSE Len(r.events)
    IN  [i \in 1..n |-> RunnerEvent(r.events[i], r.task_ids[i])]

RECURSIVE TaskletEvents(_)
TaskletEvents(tasklets) ==
    IF tasklets = <<>> THEN <<>>
    ELSE <<RunnerEvent("TASK_STARTED", Head(tasklets).id), RunnerEvent("TASK_DONE", Head(tasklets).id)>>
           \o TaskletEvents(Tail(tasklets))

\* the opening event, the hires, the tasklets one after the other in list order, the end
ExpectedRunEvents(o) ==
    <<RunnerEvent("PHASE_CHANGE", 0)>>
      \o Repeat(RunnerEvent("HIRE", 0), Len(o.c_suite) + Len(o.ics))
      \o TaskletEvents(o.tasklets)
      \o <<RunnerEvent("FINISHED", 0)>>

IsPrefix(s, t) == Len(s) <= Len(t) /\ \A i \in 1..Len(s) : s[i] = t[i]

RunEventsInOrder(j) ==
    LET r == http.runs[j]
    IN  r.st # "queued" =>
          /\ IsPrefix(RunnerEvents(j), ExpectedRunEvents(r.org[1]))
          /\ r.st = "finished" => RunnerEvents(j) = ExpectedRunEvents(r.org[1])

\* C33: what a run has published is at every moment a prefix of: the opening PHASE_CHANGE,
\* one HIRE per C-suite and IC role, then per tasklet in list order its TASK_STARTED
\* directly followed by its TASK_DONE, then FINISHED; a run that returned published all
\* of it, so FINISHED is published once and last and no two tasklets overlap.
C33_RunnerEventOrder == \A j \in DOMAIN http.runs : RunEventsInOrder(j)

\* a finished run over the Slack organisation: 5 hires and two tasklets
C33_Witness ==
    \E j \in DOMAIN http.runs :
        /\ http.runs[j].st = "finished"
        /\ Len(http.runs[j].org[1].tasklets) = 2
        /\ Len(RunnerEvents(j)) = 11
        /\ RunnerEvents(j)[8] = RunnerEvent("TASK_DONE", 1)
        /\ RunnerEvents(j)[9] = RunnerEvent("TASK_STARTED", 2)

(***************************************************************************)
(* C34: EventBus.close                                                     *)
(***************************************************************************)
IsPublishCall == published' = published + 1

IsCloseCall == ~closed /\ closed'

\* a publish on a closed bus leaves every queue as it was
PublishAfterCloseEnqueuesNothing == (closed /\ IsPublishCall) => queue' = queue

\* close itself touches no queue, no registration and no subscriber iteration
CloseKeepsSubscribers ==
    IsCloseCall => (queue' = queue /\ subscribers' = subscribers /\ subState' = subState)

\* on a closed bus a queue changes only by its subscriber: taking its head, or leaving
QueuedStaysInOrder ==
    closed =>
        \A s \in Subs :
            \/ queue'[s] = queue[s] /\ received'[s] = received[s]
            \/ /\ queue[s] # <<>>
               /\ queue'[s] = Tail(queue[s])
               /\ received'[s] = Append(received[s], Head(queue[s]))
            \/ subState[s] = "active" /\ subState'[s] = "finished"

\* a subscriber with a queued event can take it, closed or not
QueuedIsDeliverable ==
    \A s \in Subs :
        (closed /\ subState[s] = "active" /\ queue[s] # <<>> /\ Len(received[s]) < MaxGets)
            => ENABLED Get(s)

\* C34: once the bus is closed a publish enqueues nothing for any subscriber; close leaves
\* every queue, registration and subscriber iteration as it was; and what was queued before
\* the close can still be taken by its subscriber, head first.
C34_CloseStopsPublishOnly ==
    /\ []QueuedIsDeliverable
    /\ [][PublishAfterCloseEnqueuesNothing /\ CloseKeepsSubscribers /\ QueuedStaysInOrder]_vars

\* two events queued, the bus closed, one more publish made, and both events delivered after it
C34_Witness ==
    \E s \in Subs :
        /\ closed
        /\ afterClose >= 1
        /\ subState[s] = "active"
        /\ s \in Range(subscribers)
        /\ Len(received[s]) >= 2
        /\ received[s][1] < received[s][2]
        /\ published > received[s][Len(received[s])]
        /\ queue[s] = <<>>

(***************************************************************************)
(* C35: CacheManager.clear                                                 *)
(***************************************************************************)
IsClearCall == cacheRet'.op = "clear"

\* the files written by set(category, ...): set puts the category first in the cache key
StoredUnder(files, category) == {item \in files : item[1][1] = category}

ClearsExactlyCategory ==
    IsClearCall =>
        LET category == cacheRet'.category
            stored == IF category = "" THEN cacheFiles ELSE StoredUnder(cacheFiles, category)
        IN  /\ cacheFiles' = cacheFiles \ stored
            /\ cacheRet'.count = Cardinality(stored)

\* C35: clear(category) deletes exactly the entries stored under that category and returns
\* their number, leaving the entries of every other category, also of one whose name
\* begins with the same text; clear() deletes all entries.
C35_ClearExactlyCategory == [][ClearsExactlyCategory]_vars

\* clear("tool_code") was called with one tool_code entry stored and returned 2:
\* the tool_code_reader entry went with it
C35_OtherCategoryCleared ==
    /\ cacheRet.op = "clear"
    /\ cacheRet.category = "tool_code"
    /\ cacheRet.count = 2
    /\ cacheFiles = {}

(***************************************************************************)
(* C36: ToolSelector.select_tools and the catalogued roles                 *)
(***************************************************************************)
\* the preference record that carries this role name
OwnPreferences(role) ==
    ROLE_PREFERENCES(CHOOSE key \in PreferenceKeys : ROLE_PREFERENCES(key).role = role)

NoDuplicates(s) == \A i, j \in DOMAIN s : s[i] = s[j] => i = j

SelectionFollowsOwnRecord ==
    LET prefs == OwnPreferences(selection.role)
        result == Range(selection.tools)
    IN  /\ (Range(prefs.required_tools) \ Range(prefs.excluded_tools)) \subseteq result
        /\ result \cap Range(prefs.excluded_tools) = {}
        /\ result \subseteq (Range(prefs.required_tools) \cup Range(prefs.preferred_tools))
        /\ NoDuplicates(selection.tools)

\* C36: for each of the ten catalogued role names, under every budget policy, the tools
\* returned come from the record of that role: every required tool that is not excluded,
\* no excluded tool, nothing from outside the record, no duplicate.
C36_CataloguedRolesUseOwnRecord ==
    (selection.n > 0 /\ selection.role \in CataloguedRoles) => SelectionFollowsOwnRecord

\* select_tools("VP Engineering", ..., "aggressive", 50) returned the default pair
C36_DefaultForCataloguedRole ==
    /\ selection.role = <<"VP", "Engineering">>
    /\ selection.budget_policy = "aggressive"
    /\ selection.tools = DefaultTools

(***************************************************************************)
(* C37: spent and the alert level only go up                               *)
(***************************************************************************)
AlertSeverity(level) ==
    CASE level = NORMAL -> 0
      [] level = WARNING -> 1
      [] level = CRITICAL -> 2
      [] level = EXCEEDED_SOFT -> 3
      [] level = EMERGENCY -> 4

SpentWithinHardCap == bm.spent <= bm.hard_cap_usd

SpendOnlyGrows ==
    /\ bm'.spent >= bm.spent
    /\ AlertSeverity(get_alert_level(bm')) >= AlertSeverity(get_alert_level(bm))

\* C37: over record_spend calls with amounts of zero or more, from nothing spent, spent
\* never goes down and never passes hard_cap_usd, and the alert level never becomes less
\* severe.
C37_SpendMonotone == []SpentWithinHardCap /\ [][SpendOnlyGrows]_vars

\* a rejected call after accepted ones, a zero amount among them, the level at emergency
C37_Witness ==
    /\ ret.op = "record_spend"
    /\ ~ret.ok
    /\ get_alert_level(bm) = EMERGENCY
    /\ Len(bm.spend_history) >= 2
    /\ \E i \in DOMAIN bm.spend_history : bm.spend_history[i].amount = 0
    /\ bm.spent < bm.hard_cap_usd

(***************************************************************************)
(* C38: the counts of get_progress                                         *)
(***************************************************************************)
\* the tasks with no terminal outcome recorded: not done, not failed, not skipped
WithoutOutcome == {t \in Tasks : results[t] \notin {DONE, FAILED, SKIPPED}}

\* C38: get_progress reports total = completed + failed + in_progress with in_progress the
\* number of tasks that have no terminal outcome yet (done, failed or skipped), so that
\* in_progress is 0 once a sequential execute has walked its task order and returned.
C38_ProgressCounts ==
    LET p == get_progress(results)
    IN  /\ p.total = p.completed + p.failed + p.in_progress
        /\ p.in_progress = Cardinality(WithoutOutcome)
        /\ (mode = "sequential" /\ pc = "returned" /\ task_order = <<>> /\ SpentAtEntry < bm.hard_cap_usd)
              => p.in_progress = 0

\* a returned sequential run: the first task failed, its dependent was skipped, and
\* get_progress still reports one task in progress
C38_SkippedCountedInProgress ==
    /\ mode = "sequential"
    /\ pc = "returned"
    /\ \E t, u \in Tasks : <<t, u>> \in edges /\ results[t] = FAILED /\ results[u] = SKIPPED
    /\ \A t \in Tasks : results[t] # "none"
    /\ get_progress(results).in_progress >= 1

(***************************************************************************)
(* C39: the agents of a plan and the agents it created                     *)
(***************************************************************************)
AgentsOfLevel(oag, level) == {id \in oag.agents : AgentLevel(id) = level}

PlanKeepsEveryAgent(p) ==
    LET calls == AddNodeCalls(p.budget_policy, p.budget_usd)
    IN  /\ Cardinality(AgentsOfLevel(p.oag, "C_SUITE")) = 3
        /\ Cardinality(AgentsOfLevel(p.oag, "VP")) = calls.vps
        /\ Cardinality(AgentsOfLevel(p.oag, "DIRECTOR")) = calls.directors
        /\ Cardinality(AgentsOfLevel(p.oag, "MANAGER")) = calls.managers
        /\ Cardinality(AgentsOfLevel(p.oag, "IC")) = calls.ics

\* C39: at every staffing level the OAG Planner.plan returns holds the 3 C-suite agents
\* and one agent for every VP, director, manager and IC the creation steps built: no two
\* of them share an id, so no add_node replaces an agent built earlier in the plan.
C39_DistinctAgentIds == \A i \in 1..Len(plan) : PlanKeepsEveryAgent(plan[i])

\* a balanced plan at $100: 8 ICs were built for 4 managers and 4 are in the OAG
C39_IcsOverwritten ==
    \E i \in 1..Len(plan) :
        /\ plan[i].budget_policy = BALANCED
        /\ plan[i].budget_usd = 10000
        /\ AddNodeCalls(BALANCED, 10000).ics = 8
        /\ Cardinality(AgentsOfLevel(plan[i].oag, "IC")) = 4
        /\ Cardinality(AgentsOfLevel(plan[i].oag, "MANAGER")) = 4

(***************************************************************************)
(* C40: what BoardRoom.execute(on_event=cb) hands to cb                    *)
(***************************************************************************)
\* the events of the current run, by position: 1 is the opening event, the last is FINISHED
PublishedByRun == [i \in 1..Len(forward.runs[1].events) |-> i]

\* what cb was given is in publish order, no event twice
InPublishOrder(d) == \A i, j \in 1..Len(d) : i < j => d[i] < d[j]

\* C40: cb is given the events of the run in publish order, none twice, and when
\* execute(on_event=cb) returns, its forwarding task cancelled, cb has been given
\* every event the run published, from the first through FINISHED.
C40_EveryEventForwarded ==
    /\ InPublishOrder(forward.delivered)
    /\ forward.st = "returned" => forward.delivered = PublishedByRun

\* execute returned on an organisation of three officers and two ICs: of the 11 events published cb was given
\* the 8th and the 9th only; the first seven came before the forwarder had registered
\* its queue, the last two are still in the queue of the cancelled forwarder
C40_EdgesNotForwarded ==
    /\ forward.st = "returned"
    /\ forward.task = "cancelled"
    /\ Len(forward.runs[1].events) = 11
    /\ forward.runs[1].events[11] = "FINISHED"
    /\ forward.delivered = <<8, 9>>
    /\ forward.queue = <<10, 11>>

====
